---- MODULE Spec2Model ----
(***************************************************************************)
(* Model of the flight-query federation pipeline of                        *)
(* backend/query_engine/federator.py and analyzer.py.                      *)
(*                                                                         *)
(*   SpecMerge  integrate_results: normalize_row on every input row, the   *)
(*              three folds into the merged dict, the final sort.          *)
(*   SpecBuild  run_query_interactive up to the query specs: intent        *)
(*              extraction, fuzzy_city_normalize, the three builders.      *)
(*   SpecFetch  run_query_interactive from the query specs to the call of  *)
(*              integrate_results: the three executors, the airline filter.*)
(*   SpecMongo  execute_mongo: the two connection attempts and the read.   *)
(*   SpecSummary run_query_interactive after the merge: safe_call_llm and  *)
(*              its retries, the summary or its fallback, llm_parsed.      *)
(***************************************************************************)
EXTENDS Integers, Sequences, FiniteSets, TLC

VARIABLES
    dwh_rows, indigo_rows, mongo_rows,  \* arguments of integrate_results
    merged,                             \* the dict `merged`, in insertion order
    owner,                              \* the dict object each entry of merged is
    integrated,                         \* the list integrate_results returns
    pc, idx,                            \* loop of integrate_results and index in it
    query, use_llm,                     \* query text (words), analyzer.USE_LLM
    parsed,                             \* the Intent dict `parsed`
    parsed_by,                          \* the parser that made it
    dwh_sql, indigo_sql, mongo_filter,  \* the three query specs
    bpc,                                \* position in run_query_interactive
    fails,                              \* the sources whose execution raises
    flights_dwh, indigo_src, docs,      \* what each source holds for its query
    fpc,                                \* position in lines 319-343
    executed,                           \* the executors called so far, in order
    mongo_uri, allow_invalid_certs,     \* MONGO_URI is set, MONGO_ALLOW_INVALID_CERTS
    coll, limit,                        \* documents the filter matches, argument limit
    connects, reads,                    \* connection attempts made, reads made
    mpc,                                \* position in execute_mongo
    api_key,                            \* GROQ_API_KEY is set
    tries, provider_log,                \* attempts of the retried call, provider answers
    resp,                               \* what safe_call_llm returned
    llm_summary, llm_parsed, llm_raw,   \* output fields of lines 351-407
    spc                                 \* position in lines 345-435

mergeVars == <<dwh_rows, indigo_rows, mongo_rows, merged, owner, integrated, pc, idx>>
buildVars == <<query, use_llm, parsed, parsed_by, dwh_sql, indigo_sql, mongo_filter, bpc>>
fetchVars == <<fails, flights_dwh, indigo_src, docs, fpc, executed>>
mongoVars == <<mongo_uri, allow_invalid_certs, coll, limit, connects, reads, mpc>>
sumVars == <<api_key, tries, provider_log, resp, llm_summary, llm_parsed, llm_raw, spc>>
vars == <<dwh_rows, indigo_rows, mongo_rows, merged, owner, integrated, pc, idx,
          query, use_llm, parsed, parsed_by, dwh_sql, indigo_sql, mongo_filter, bpc,
          fails, flights_dwh, indigo_src, docs, fpc, executed,
          mongo_uri, allow_invalid_certs, coll, limit, connects, reads, mpc,
          api_key, tries, provider_log, resp, llm_summary, llm_parsed, llm_raw, spc>>

(***************************************************************************)
(* Bounds.                                                                 *)
(***************************************************************************)
\* Total number of rows over the three lists handed to integrate_results.
MaxRows == 3
\* Total number of records the three sources hold for one query.
MaxRecords == 2

(***************************************************************************)
(* Python values.  A dict field holds None, a number or a string, or is    *)
(* absent from the dict; every value has the same shape so that any two    *)
(* can be compared.                                                        *)
(***************************************************************************)
Absent == [k |-> "absent", n |-> 0, s |-> ""]
None == [k |-> "none", n |-> 0, s |-> ""]
Num(i) == [k |-> "num", n |-> i, s |-> ""]
Str(t) == [k |-> "str", n |-> 0, s |-> t]

\* d.get(f)
Get(d, f) == IF d[f].k = "absent" THEN None ELSE d[f]
\* d.get(f, default)
GetDefault(d, f, default) == IF d[f].k = "absent" THEN default ELSE d[f]
\* bool(v)
Truthy(v) == (v.k = "num" /\ v.n # 0) \/ (v.k = "str" /\ v.s # "")
\* a or b
PyOr(a, b) == IF Truthy(a) THEN a ELSE b
\* str(v), as an f-string renders it
PyStr(v) == IF v.k = "str" THEN v.s ELSE IF v.k = "num" THEN ToString(v.n) ELSE "None"

\* float(s) for a string s: the number, or None where float() raises ValueError
ParseFloat(s) ==
    CASE s = "4500" -> Num(4500)
      [] s = "3000" -> Num(3000)
      [] OTHER -> None
\* s.replace(",", "")
RemoveCommas(s) ==
    CASE s = "4,500" -> "4500"
      [] s = "3,000" -> "3000"
      [] OTHER -> s
\* s.title()
Title(s) ==
    CASE s \in {"delhi", "Delhi", "DELHI"} -> "Delhi"
      [] s \in {"mumbai", "Mumbai"} -> "Mumbai"
      [] s \in {"bangalore", "Bangalore"} -> "Bangalore"
      [] s \in {"london", "London"} -> "London"
      [] s = "goa" -> "Goa"
      [] s = "mumbay" -> "Mumbay"
      [] s = " Delhi " -> " Delhi "
      [] OTHER -> s

(***************************************************************************)
(* Rows.                                                                   *)
(***************************************************************************)
Fields == {"flight_no", "airline", "source", "origin", "destination", "date",
           "price", "seat_count", "departure_time", "departure", "dep_time",
           "departureTime"}

EmptyRow == [f \in Fields |-> Absent]

\* normalize_row, price part (lines 201-211)
NormalizePrice(price) ==
    IF price.k = "none" THEN None
    ELSE IF price.k = "num" THEN price
    ELSE IF ParseFloat(price.s).k = "num" THEN ParseFloat(price.s)
    ELSE ParseFloat(RemoveCommas(price.s))

\* normalize_row, departure time part (lines 213-216); the rows of the model
\* carry no nested "schedule" mapping
NormalizeDeparture(out) ==
    PyOr(PyOr(PyOr(Get(out, "departure_time"), Get(out, "departure")),
              Get(out, "dep_time")), Get(out, "departureTime"))

\* a synthesized flight_no without the source tag
SynthFlightNo_NoSource(out) ==
    Str(PyStr(Get(out, "origin")) \o "_" \o PyStr(Get(out, "destination")) \o "_"
        \o PyStr(Get(out, "date")))

\* normalize_row, the synthesized flight_no (line 224)
SynthFlightNo(out) ==
    Str(PyStr(GetDefault(out, "source", Str("UNKNOWN"))) \o "_" \o PyStr(Get(out, "origin"))
        \o "_" \o PyStr(Get(out, "destination")) \o "_" \o PyStr(Get(out, "date")))

NormalizeCity(out, f) == IF Truthy(Get(out, f)) THEN Str(Title(PyStr(out[f]))) ELSE out[f]

normalize_row(r) ==
    LET o1 == [r EXCEPT !["price"] = NormalizePrice(Get(r, "price"))]
        o2 == [o1 EXCEPT !["departure_time"] = NormalizeDeparture(o1)]
        o3 == [o2 EXCEPT !["origin"] = NormalizeCity(o2, "origin"),
                         !["destination"] = NormalizeCity(o2, "destination")]
    IN  IF Truthy(Get(o3, "flight_no")) THEN o3
        ELSE [o3 EXCEPT !["flight_no"] = SynthFlightNo(o3)]

(***************************************************************************)
(* integrate_results: the merged dict and its folds.                       *)
(***************************************************************************)
\* the key expression of lines 275, 278 and 286
KeyOf(r) ==
    IF Truthy(Get(r, "flight_no")) THEN Get(r, "flight_no")
    ELSE Str(PyStr(Get(r, "origin")) \o "-" \o PyStr(Get(r, "destination"))
             \o "-" \o PyStr(Get(r, "date")))

\* position of key in the dict, 0 when it is not in it
IndexOfKey(m, key) ==
    IF \E i \in 1..Len(m) : m[i].key = key
    THEN CHOOSE i \in 1..Len(m) : m[i].key = key
    ELSE 0

\* dict.update(r)
DictUpdate(rec, r) == [f \in Fields |-> IF r[f].k = "absent" THEN rec[f] ELSE r[f]]

\* a field the fill loop may write: None or "" in the merged record
IsEmptyValue(v) == v.k = "none" \/ v = Str("")

\* the fill loop writing over fields that already hold a value
FillMissing_Overwrite(rec, r) ==
    [f \in Fields |-> IF r[f].k \notin {"absent", "none"} THEN r[f] ELSE rec[f]]

\* the fill loop taking only None, not "", for an empty field
FillMissing_OnlyNull(rec, r) ==
    [f \in Fields |->
        IF r[f].k # "absent" /\ Get(rec, f).k = "none" /\ r[f].k # "none"
        THEN r[f] ELSE rec[f]]

\* lines 280-282 and 288-290
FillMissing(rec, r) ==
    [f \in Fields |->
        IF r[f].k # "absent" /\ IsEmptyValue(Get(rec, f)) /\ r[f].k # "none"
        THEN r[f] ELSE rec[f]]

\* merged.setdefault(key, {}).update(r)
SetDefaultUpdate(m, r) ==
    LET key == KeyOf(r)
        i == IndexOfKey(m, key)
    IN  IF i = 0 THEN Append(m, [key |-> key, rec |-> DictUpdate(EmptyRow, r)])
        ELSE [m EXCEPT ![i].rec = DictUpdate(@, r)]

\* one iteration of the loop over dwh_n (lines 274-276)
FoldDwhRow(m, r) == SetDefaultUpdate(m, r)

\* one iteration of the loop over indigo_n or mongo_n (lines 277-292)
FoldFillRow(m, r) ==
    LET key == KeyOf(r)
        i == IndexOfKey(m, key)
    IN  IF i # 0 THEN [m EXCEPT ![i].rec = FillMissing(@, r)]
        ELSE SetDefaultUpdate(m, r)

\* the sort key without its null flag: (price or 0)
SortKey_NoNullFlag(rec) ==
    <<FALSE, IF Truthy(Get(rec, "price")) THEN Get(rec, "price").n ELSE 0>>

\* the sort key of line 296: (price is None, price or 0)
SortKey(rec) ==
    <<Get(rec, "price").k = "none",
      IF Truthy(Get(rec, "price")) THEN Get(rec, "price").n ELSE 0>>

\* tuple comparison a < b of two sort keys (False < True)
KeyLess(a, b) == (~a[1] /\ b[1]) \/ (a[1] = b[1] /\ a[2] < b[2])

\* x put into the sorted list s behind every element that is not greater
InsertSorted(s, x) ==
    LET after == {i \in 1..Len(s) : KeyLess(SortKey(x), SortKey(s[i]))}
        p == IF after = {} THEN Len(s) + 1
             ELSE CHOOSE i \in after : \A j \in after : i <= j
    IN  SubSeq(s, 1, p - 1) \o <<x>> \o SubSeq(s, p, Len(s))

RECURSIVE StableSort(_)
\* list.sort(key=...): stable, ascending
StableSort(s) ==
    IF s = <<>> THEN <<>>
    ELSE InsertSorted(StableSort(SubSeq(s, 1, Len(s) - 1)), s[Len(s)])

\* list(merged.values())
DictValues(m) == [i \in 1..Len(m) |-> m[i].rec]

RECURSIVE FoldDwh(_, _)
FoldDwh(m, rows) ==
    IF rows = <<>> THEN m
    ELSE FoldDwh(FoldDwhRow(m, normalize_row(Head(rows))), Tail(rows))

RECURSIVE FoldFill(_, _)
FoldFill(m, rows) ==
    IF rows = <<>> THEN m
    ELSE FoldFill(FoldFillRow(m, normalize_row(Head(rows))), Tail(rows))

\* the function as a whole (lines 268-299)
integrate_results(d, i, m) ==
    StableSort(DictValues(FoldFill(FoldFill(FoldDwh(<<>>, d), i), m)))

(***************************************************************************)
(* Inputs of integrate_results.                                            *)
(***************************************************************************)
SourceTags == <<"DWH", "IndiGo", "AirIndia">>
AirlineOf == <<"Air India", "IndiGo", "Air India">>

\* (flight_no, source, origin) of a row of list li (1 DWH, 2 IndiGo, 3 Mongo):
\* a flight number; none, so that one is synthesized from the source tag; none
\* and no source tag either.  execute_mongo always tags its rows (line 170).
Identities(li) ==
    { <<Str("AI123"), Str(SourceTags[li]), Str("Delhi")>>,
      <<None, Str(SourceTags[li]), Str("delhi")>> }
    \cup (IF li = 3 THEN {} ELSE { <<Str(""), Absent, Str("Delhi")>> })

\* (price, seat_count, departure) of a row of list li
Payloads(li) ==
    (IF li = 2 THEN {} ELSE { <<None, Num(40), Absent>> })
    \cup (IF li = 1 THEN {} ELSE { <<Num(4500), None, Absent>> })
    \cup { <<Num(3000), Num(30), Str("10:00")>> }
    \cup (IF li = 3 THEN {} ELSE { <<Str("4,500"), Str(""), Absent>> })

MkRow(li, id, pl) ==
    [EmptyRow EXCEPT !["flight_no"] = id[1], !["source"] = id[2], !["origin"] = id[3],
                     !["airline"] = Str(AirlineOf[li]),
                     !["destination"] = Str("Mumbai"), !["date"] = Str("2025-01-01"),
                     !["price"] = pl[1], !["seat_count"] = pl[2], !["departure"] = pl[3]]

\* a DWH row of flight AI123 whose source is null
UntaggedRow == MkRow(1, <<Str("AI123"), None, Str("Delhi")>>, <<None, Num(40), Absent>>)

RowDomain(li) ==
    { MkRow(li, id, pl) : id \in Identities(li), pl \in Payloads(li) }
    \cup (IF li = 1 THEN {UntaggedRow} ELSE {})

RowLists(li, n) == [1..n -> RowDomain(li)]

(***************************************************************************)
(* SpecMerge: integrate_results, one loop iteration per step.              *)
(***************************************************************************)
\* the loop that runs next from loop p at index i: empty lists are skipped
Position(p, i, d, g, m) ==
    IF p = "dwh" /\ i <= Len(d) THEN <<"dwh", i>>
    ELSE IF p \in {"dwh"} /\ Len(g) > 0 THEN <<"indigo", 1>>
    ELSE IF p = "indigo" /\ i <= Len(g) THEN <<"indigo", i>>
    ELSE IF p \in {"dwh", "indigo"} /\ Len(m) > 0 THEN <<"mongo", 1>>
    ELSE IF p = "mongo" /\ i <= Len(m) THEN <<"mongo", i>>
    ELSE <<"sort", 0>>

FetchIdle ==
    /\ fails = {}
    /\ flights_dwh = <<>>
    /\ indigo_src = <<>>
    /\ docs = <<>>
    /\ fpc = "idle"
    /\ executed = <<>>

MongoIdle ==
    /\ mongo_uri = FALSE
    /\ allow_invalid_certs = FALSE
    /\ coll = <<>>
    /\ limit = 0
    /\ connects = <<>>
    /\ reads = <<>>
    /\ mpc = "idle"

SumIdle ==
    /\ api_key = FALSE
    /\ tries = 0
    /\ provider_log = <<>>
    /\ resp = [kind |-> "unset", text |-> ""]
    /\ llm_summary = None
    /\ llm_parsed = None
    /\ llm_raw = "unset"
    /\ spc = "idle"

BuildIdle ==
    /\ query = <<>>
    /\ use_llm = FALSE
    /\ parsed = <<>>
    /\ parsed_by = "none"
    /\ dwh_sql = <<>>
    /\ indigo_sql = <<>>
    /\ mongo_filter = <<>>
    /\ bpc = "idle"

InitMerge ==
    /\ \E nd \in 0..MaxRows : \E ni \in 0..(MaxRows - nd) : \E nm \in 0..(MaxRows - nd - ni) :
          /\ dwh_rows \in RowLists(1, nd)
          /\ indigo_rows \in RowLists(2, ni)
          /\ mongo_rows \in RowLists(3, nm)
    /\ merged = <<>>
    /\ owner = <<>>
    /\ integrated = <<>>
    /\ pc = Position("dwh", 1, dwh_rows, indigo_rows, mongo_rows)[1]
    /\ idx = Position("dwh", 1, dwh_rows, indigo_rows, mongo_rows)[2]
    /\ BuildIdle
    /\ FetchIdle
    /\ MongoIdle
    /\ SumIdle

\* the dict objects at work: row i of input list li, the dict normalize_row
\* returns for it, and the dict setdefault(key, {}) creates while row i of list
\* li is folded in
InputRef(li, i) == <<"input", li, i>>
NewDict(li, i) == <<"new", li, i>>

\* line 200: out = dict(r) is a dict of its own
dict_copy_Alias(ref) == ref
dict_copy(ref) == <<"copy", ref[2], ref[3]>>

\* lines 200-225 write the normalized fields to the dict `out`: the rows of an
\* input list after normalize_row has run on row i
AfterNormalize(rows, li, i) ==
    IF dict_copy(InputRef(li, i)) = InputRef(li, i)
    THEN [rows EXCEPT ![i] = normalize_row(rows[i])]
    ELSE rows

\* lines 277, 285, 294: a key not yet in merged gets a new dict
Owners(o, m, r, li, i) ==
    IF IndexOfKey(m, KeyOf(r)) = 0 THEN Append(o, NewDict(li, i)) ELSE o

Advance ==
    /\ pc' = Position(pc, idx + 1, dwh_rows, indigo_rows, mongo_rows)[1]
    /\ idx' = Position(pc, idx + 1, dwh_rows, indigo_rows, mongo_rows)[2]

LoopDwh ==
    /\ pc = "dwh"
    /\ merged' = FoldDwhRow(merged, normalize_row(dwh_rows[idx]))
    /\ owner' = Owners(owner, merged, normalize_row(dwh_rows[idx]), 1, idx)
    /\ dwh_rows' = AfterNormalize(dwh_rows, 1, idx)
    /\ Advance
    /\ UNCHANGED <<indigo_rows, mongo_rows, integrated>>
    /\ UNCHANGED buildVars
    /\ UNCHANGED fetchVars
    /\ UNCHANGED mongoVars
    /\ UNCHANGED sumVars

LoopIndigo ==
    /\ pc = "indigo"
    /\ merged' = FoldFillRow(merged, normalize_row(indigo_rows[idx]))
    /\ owner' = Owners(owner, merged, normalize_row(indigo_rows[idx]), 2, idx)
    /\ indigo_rows' = AfterNormalize(indigo_rows, 2, idx)
    /\ Advance
    /\ UNCHANGED <<dwh_rows, mongo_rows, integrated>>
    /\ UNCHANGED buildVars
    /\ UNCHANGED fetchVars
    /\ UNCHANGED mongoVars
    /\ UNCHANGED sumVars

LoopMongo ==
    /\ pc = "mongo"
    /\ merged' = FoldFillRow(merged, normalize_row(mongo_rows[idx]))
    /\ owner' = Owners(owner, merged, normalize_row(mongo_rows[idx]), 3, idx)
    /\ mongo_rows' = AfterNormalize(mongo_rows, 3, idx)
    /\ Advance
    /\ UNCHANGED <<dwh_rows, indigo_rows, integrated>>
    /\ UNCHANGED buildVars
    /\ UNCHANGED fetchVars
    /\ UNCHANGED mongoVars
    /\ UNCHANGED sumVars

SortAndReturn ==
    /\ pc = "sort"
    /\ integrated' = StableSort(DictValues(merged))
    /\ pc' = "done"
    /\ UNCHANGED <<dwh_rows, indigo_rows, mongo_rows, merged, owner, idx>>
    /\ UNCHANGED buildVars
    /\ UNCHANGED fetchVars
    /\ UNCHANGED mongoVars
    /\ UNCHANGED sumVars

NextMerge == LoopDwh \/ LoopIndigo \/ LoopMongo \/ SortAndReturn

SpecMerge == InitMerge /\ [][NextMerge]_vars

(***************************************************************************)
(* Intent extraction: analyzer.regex_parse on a query text.  A text is the *)
(* sequence of its words; the words of the model hold none of the keywords *)
(* inside a longer word, so `kw in text` is a test on words.               *)
(***************************************************************************)
IntentFields == {"airline", "origin", "destination", "date", "price_limit",
                 "seat_count", "intent"}

\* the clock: str(today) and str(today + 1 day)
TodayIso == "2025-01-01"
TomorrowIso == "2025-01-02"

\* word.lower()
Lower(w) ==
    CASE w = "IndiGo" -> "indigo"
      [] w = "Delhi" -> "delhi"
      [] w = "Mumbai" -> "mumbai"
      [] w = "Mumbay" -> "mumbay"
      [] w = "Bangalore" -> "bangalore"
      [] w = "London" -> "london"
      [] w = "Chennai" -> "chennai"
      [] w = "Kolkata" -> "kolkata"
      [] w = "Hyderabad" -> "hyderabad"
      [] w = "Pune" -> "pune"
      [] w = "Ahmedabad" -> "ahmedabad"
      [] w = "Below" -> "below"
      [] w = "Air India" -> "air india"
      [] w = "Air India Express" -> "air india express"
      [] w = "AirIndia" -> "airindia"
      [] w = "DWH" -> "dwh"
      [] w = "Akasa" -> "akasa"
      [] w = "Air" -> "air"
      [] w = "India" -> "india"
      [] OTHER -> w

\* word.upper(), on the intent words
Upper(w) ==
    CASE w \in {"min", "Min", "MIN"} -> "MIN"
      [] w \in {"avg", "Avg", "AVG"} -> "AVG"
      [] w \in {"list", "LIST"} -> "LIST"
      [] w = "cheapest" -> "CHEAPEST"
      [] w = "None" -> "NONE"
      [] OTHER -> w

LowerText(q) == [i \in 1..Len(q) |-> Lower(q[i])]

Contains(q, w) == \E i \in 1..Len(q) : q[i] = w
ContainsPair(q, a, b) == \E i \in 1..(Len(q) - 1) : q[i] = a /\ q[i + 1] = b

\* \d+ and int() of it
IsDigits(w) == w \in {"0", "2", "5", "31", "5000"}
IntOf(w) ==
    CASE w = "0" -> 0
      [] w = "2" -> 2
      [] w = "5" -> 5
      [] w = "31" -> 31
      [] w = "5000" -> 5000

Leftmost(S) == CHOOSE i \in S : \A j \in S : i <= j

\* resolve_date (analyzer.py lines 25-38)
MonthWords == {"jan", "feb", "mar", "apr", "may", "jun", "jul", "aug", "sep", "oct",
               "nov", "dec"}
\* the words \d{1,2} matches as a whole
DayWords == {"0", "2", "5", "31"}
\* matches of (\d{1,2})\s*(jan|...|dec), as the place of the day
DayMonthAt(text) ==
    {i \in 1..(Len(text) - 1) : text[i] \in DayWords /\ text[i + 1] \in MonthWords}
\* datetime(year, month, day) raises ValueError: no such day in the month
NoSuchDay(d, m) ==
    \/ d = "0"
    \/ d = "31" /\ m \in {"feb", "apr", "jun", "sep", "nov"}
\* str(datetime(year, month, day).date()), in the year of the clock
DayMonthIso(d, m) ==
    CASE d = "5" /\ m = "jan" -> "2025-01-05"
      [] d = "2" /\ m = "jan" -> "2025-01-02"
      [] d = "31" /\ m = "jan" -> "2025-01-31"
      [] OTHER -> "2025-" \o m \o "-" \o d
\* resolve_date raises (line 37), and regex_parse with it (line 50)
resolve_date_raises(text) ==
    /\ ~Contains(text, "tomorrow")
    /\ ~Contains(text, "today")
    /\ DayMonthAt(text) # {}
    /\ NoSuchDay(text[Leftmost(DayMonthAt(text))], text[Leftmost(DayMonthAt(text)) + 1])
resolve_date(text) ==
    IF Contains(text, "tomorrow") THEN Str(TomorrowIso)
    ELSE IF Contains(text, "today") THEN Str(TodayIso)
    ELSE IF DayMonthAt(text) # {}
         THEN Str(DayMonthIso(text[Leftmost(DayMonthAt(text))],
                              text[Leftmost(DayMonthAt(text)) + 1]))
         ELSE None

\* matches of from\s+(\w+)\s+to\s+(\w+)
FromToAt(q) == {i \in 1..(Len(q) - 3) : q[i] = "from" /\ q[i + 2] = "to"}

\* the price pattern with the trigger word "under" alone
PriceAt_UnderOnly(q) == {i \in 2..Len(q) : IsDigits(q[i]) /\ q[i - 1] = "under"}

\* matches of (under|less than|below)\s*(\d+), as the place of the digits
PriceAt(q) ==
    {i \in 2..Len(q) :
        /\ IsDigits(q[i])
        /\ \/ q[i - 1] \in {"under", "below"}
           \/ (i > 2 /\ q[i - 2] = "less" /\ q[i - 1] = "than")}

\* matches of (more than|at least|min)\s*(\d+)\s*seats?, as the place of the digits
SeatAt(q) ==
    {i \in 2..(Len(q) - 1) :
        /\ IsDigits(q[i])
        /\ q[i + 1] \in {"seat", "seats"}
        /\ \/ q[i - 1] = "min"
           \/ (i > 2 /\ q[i - 2] = "more" /\ q[i - 1] = "than")
           \/ (i > 2 /\ q[i - 2] = "at" /\ q[i - 1] = "least")}

\* analyzer.py lines 44-83
regex_parse(text) ==
    LET q == LowerText(text)
    IN  [airline |-> IF Contains(q, "indigo") THEN Str("IndiGo")
                     ELSE IF ContainsPair(q, "air", "india") THEN Str("Air India")
                     ELSE None,
         origin |-> IF FromToAt(q) # {} THEN Str(q[Leftmost(FromToAt(q)) + 1]) ELSE None,
         destination |-> IF FromToAt(q) # {} THEN Str(q[Leftmost(FromToAt(q)) + 3]) ELSE None,
         date |-> resolve_date(q),
         price_limit |-> IF PriceAt(q) # {} THEN Num(IntOf(q[Leftmost(PriceAt(q))])) ELSE None,
         seat_count |-> IF SeatAt(q) # {} THEN Num(IntOf(q[Leftmost(SeatAt(q))])) ELSE None,
         intent |-> IF Contains(q, "cheapest") \/ Contains(q, "lowest") THEN Str("MIN")
                    ELSE IF Contains(q, "average") \/ Contains(q, "mean") THEN Str("AVG")
                    ELSE Str("LIST")]

(***************************************************************************)
(* fuzzy_city_normalize (federator.py lines 51-69).                        *)
(***************************************************************************)
CANONICAL_CITIES == <<"Delhi", "Chennai", "Mumbai", "Bangalore", "Kolkata", "Hyderabad",
                      "Pune", "Ahmedabad">>
AliasKeys == {"delgi", "delh", "chenai", "banglore", "bengaluru"}
ALIAS_MAP(key) ==
    CASE key \in {"delgi", "delh"} -> "Delhi"
      [] key = "chenai" -> "Chennai"
      [] key \in {"banglore", "bengaluru"} -> "Bangalore"
FUZZY_THRESHOLD == 70

\* process.extractOne(city_raw, CANONICAL_CITIES, scorer=fuzz.ratio): the best
\* candidate and its score, 100 * 2 * LCS / (sum of the lengths), rounded down
ExtractOne(city_raw) ==
    CASE city_raw \in {"london", "London"} -> <<"Chennai", 30>>
      [] city_raw = "Mumbay" -> <<"Mumbai", 83>>
      [] city_raw = "mumbay" -> <<"Mumbai", 66>>
      [] city_raw = "goa" -> <<"Kolkata", 40>>

\* the city title-cased, with no alias, canonical or fuzzy lookup
fuzzy_city_normalize_TitleOnly(city_raw) ==
    IF ~Truthy(city_raw) THEN None ELSE Str(Title(PyStr(city_raw)))

\* s.strip()
Strip(s) ==
    IF s = " Delhi " THEN "Delhi"
    ELSE IF s = "  " THEN ""
    ELSE IF s = " {\"notes\": \"ok\"} " THEN "{\"notes\": \"ok\"}"
    ELSE s

\* city_raw.strip() raises AttributeError: a truthy value that is no string
fuzzy_city_normalize_raises(city_raw) == city_raw.k = "num" /\ city_raw.n # 0

fuzzy_city_normalize(city_raw) ==
    IF ~Truthy(city_raw) THEN None
    ELSE LET raw == PyStr(city_raw)
             key == Lower(Strip(raw))
             canon == {i \in 1..Len(CANONICAL_CITIES) : key = Lower(CANONICAL_CITIES[i])}
         IN  IF key \in AliasKeys THEN Str(ALIAS_MAP(key))
             ELSE IF canon # {} THEN Str(CANONICAL_CITIES[Leftmost(canon)])
             ELSE IF ExtractOne(raw)[2] >= FUZZY_THRESHOLD
                  THEN Str(IF Lower(ExtractOne(raw)[1]) = "bengaluru" THEN "Bangalore"
                           ELSE ExtractOne(raw)[1])
             ELSE Str(Title(raw))

(***************************************************************************)
(* The three query builders (federator.py lines 87-125).                   *)
(***************************************************************************)
\* the intent kind compared without .upper()
IntentKind_CaseSensitive(p) == PyStr(GetDefault(p, "intent", Str("LIST")))

\* str(parsed.get("intent", "LIST")).upper()
IntentKind(p) == Upper(PyStr(GetDefault(p, "intent", Str("LIST"))))

\* `if parsed.get(f):`
HasFilter(p, f) == Truthy(Get(p, f))

\* the predicate and the parameter of field f, when the builder adds them
Pred(p, f, text) == IF HasFilter(p, f) THEN <<text>> ELSE <<>>
Param(p, f) == IF HasFilter(p, f) THEN <<p[f]>> ELSE <<>>

\* the parameters of lines 94-98 and 109-113, in order
FilterParams(p) ==
    Param(p, "origin") \o Param(p, "destination") \o Param(p, "date")
        \o Param(p, "price_limit") \o Param(p, "seat_count")

\* the price predicate added whatever price_limit is
DwhWhere_PriceAlways(p) ==
    Pred(p, "origin", "origin = %s") \o Pred(p, "destination", "destination = %s")
        \o Pred(p, "date", "flight_date = %s") \o <<"price < %s">>
        \o Pred(p, "seat_count", "array_length(seats,1) > %s")

DwhWhere(p) ==
    Pred(p, "origin", "origin = %s") \o Pred(p, "destination", "destination = %s")
        \o Pred(p, "date", "flight_date = %s") \o Pred(p, "price_limit", "price < %s")
        \o Pred(p, "seat_count", "array_length(seats,1) > %s")

IndigoWhere(p) ==
    Pred(p, "origin", "from_city = %s") \o Pred(p, "destination", "to_city = %s")
        \o Pred(p, "date", "journey_date = %s") \o Pred(p, "price_limit", "fare < %s")
        \o Pred(p, "seat_count", "array_length(seats,1) > %s")

\* the AVG query with the filters of the selection added to it
build_param_sql_dwh_AvgFiltered(p) ==
    [head |-> IF IntentKind(p) = "AVG" THEN "SELECT AVG(price) AS avg_price FROM flights_dwh"
              ELSE "SELECT flight_no, ..., price, seat_count, 'DWH' as source FROM flights_dwh",
     where |-> DwhWhere(p),
     tail |-> IF IntentKind(p) = "MIN" THEN "ORDER BY price ASC LIMIT 1" ELSE "",
     params |-> FilterParams(p)]

\* a parameterized query: the text before WHERE, the predicates joined by
\* AND, the text behind them, the parameter list
build_param_sql_dwh(p) ==
    IF IntentKind(p) = "AVG"
    THEN [head |-> "SELECT AVG(price) AS avg_price FROM flights_dwh",
          where |-> <<"origin = %s", "destination = %s">>,
          tail |-> "",
          params |-> <<Get(p, "origin"), Get(p, "destination")>>]
    ELSE [head |-> "SELECT flight_no, ..., price, seat_count, 'DWH' as source FROM flights_dwh",
          where |-> DwhWhere(p),
          tail |-> IF IntentKind(p) = "MIN" THEN "ORDER BY price ASC LIMIT 1" ELSE "",
          params |-> FilterParams(p)]

build_param_sql_indigo(p) ==
    IF IntentKind(p) = "AVG"
    THEN [head |-> "SELECT AVG(fare) AS avg_price FROM indigo_src",
          where |-> <<"from_city = %s", "to_city = %s">>,
          tail |-> "",
          params |-> <<Get(p, "origin"), Get(p, "destination")>>]
    ELSE [head |-> "SELECT flight_no, ..., fare as price, NULL as seat_count, 'IndiGo' as source FROM indigo_src",
          where |-> IndigoWhere(p),
          tail |-> IF IntentKind(p) = "MIN" THEN "ORDER BY fare ASC LIMIT 1" ELSE "",
          params |-> FilterParams(p)]

MongoEntry(p, f, path, op) ==
    IF HasFilter(p, f) THEN <<[path |-> path, op |-> op, value |-> p[f]]>> ELSE <<>>

\* the filter dict, as the list of its entries
build_mongo_filter(p) ==
    MongoEntry(p, "origin", "route.origin", "eq")
        \o MongoEntry(p, "destination", "route.destination", "eq")
        \o MongoEntry(p, "date", "schedule.date", "eq")
        \o MongoEntry(p, "price_limit", "pricing.base_price", "$lt")
        \o MongoEntry(p, "seat_count", "availability.seats_count", "$gt")
        \o MongoEntry(p, "airline", "airline_name", "eq")

(***************************************************************************)
(* SpecBuild: run_query_interactive from the query text to the three query *)
(* specs (federator.py lines 302-317).                                     *)
(***************************************************************************)
Scenario1Query == <<"flights", "from", "Delhi", "to", "Mumbai", "tomorrow", "under", "5000">>
IsoQuery == <<"flights", "from", "Delhi", "to", "Mumbai", "on", "2025-03-10">>

Queries ==
    { <<"cheapest", "IndiGo", "flight", "from", "Delhi", "to", "Bangalore">>,
      Scenario1Query,
      <<"average", "fare", "from", "london", "to", "delgi", "below", "5000">>,
      <<"Air", "India", "flights", "under", "0", "today">>,
      <<"lowest", "fare", "with", "at", "least", "2", "seats", "5", "jan">>,
      <<"flights", "with", "more", "than", "0", "seats">>,
      IsoQuery,
      <<"flights", "to", "Pune", "on", "2025-03-10", "or", "tomorrow">>,
      <<"from", "Kolkata", "to", "mumbay", "less", "than", "5000", "31", "jan">>,
      <<"flights", "on", "31", "feb">> }

EmptyIntent == [f \in IntentFields |-> Absent]
NullIntent == [f \in IntentFields |-> None]

\* the objects json.loads may hand back from the model's answer: every field
\* given, with the letter case and the intent words the model may choose
LlmComplete ==
    [airline : {None, Str("IndiGo")},
     origin : {None, Str("Mumbay"), Str("")},
     destination : {None, Str("Delhi")},
     date : {None, Str(TomorrowIso)},
     price_limit : {None, Num(0), Num(5000)},
     seat_count : {None, Num(0), Num(2)},
     intent : {Absent, None, Str("LIST"), Str("MIN"), Str("min"), Str("AVG"), Str("avg"),
               Str("cheapest")}]

\* a city of the canonical list, an alias key, a padded city
LlmCities ==
    { [NullIntent EXCEPT !["origin"] = Str(c), !["intent"] = Str("LIST")] :
        c \in {CANONICAL_CITIES[i] : i \in 1..Len(CANONICAL_CITIES)} \cup AliasKeys
                \cup {" Delhi "} }

\* objects with missing fields, objects with fields of another type
LlmPartial ==
    { EmptyIntent,
      [EmptyIntent EXCEPT !["origin"] = Str("Delhi"), !["intent"] = Str("MIN")],
      [NullIntent EXCEPT !["origin"] = Num(5), !["intent"] = Str("LIST")],
      [NullIntent EXCEPT !["price_limit"] = Str("5000"), !["intent"] = Str("LIST")] }

LlmIntents == LlmComplete \cup LlmCities \cup LlmPartial

\* json.loads of an answer that is JSON but no object: the array []
LlmNonObject == <<>>

\* isinstance(p, dict)
IsDict(p) == DOMAIN p = IntentFields

MergeIdle ==
    /\ dwh_rows = <<>>
    /\ indigo_rows = <<>>
    /\ mongo_rows = <<>>
    /\ merged = <<>>
    /\ owner = <<>>
    /\ integrated = <<>>
    /\ pc = "idle"
    /\ idx = 0

InitBuild ==
    /\ query \in Queries
    /\ use_llm \in BOOLEAN
    /\ parsed = <<>>
    /\ parsed_by = "none"
    /\ dwh_sql = <<>>
    /\ indigo_sql = <<>>
    /\ mongo_filter = <<>>
    /\ bpc = "parse"
    /\ MergeIdle
    /\ FetchIdle
    /\ MongoIdle
    /\ SumIdle

\* lines 303-310 with USE_LLM false, and llm_parse falling back to regex_parse
\* (analyzer.py lines 100-102) when the model call or json.loads raises; an
\* exception of regex_parse leaves run_query_interactive (line 310)
ExtractRegex ==
    /\ bpc = "parse"
    /\ IF resolve_date_raises(LowerText(query))
       THEN /\ bpc' = "raised"
            /\ UNCHANGED parsed
       ELSE /\ bpc' = "normalize"
            /\ parsed' = regex_parse(query)
    /\ parsed_by' = "regex"
    /\ UNCHANGED <<query, use_llm, dwh_sql, indigo_sql, mongo_filter>>
    /\ UNCHANGED mergeVars
    /\ UNCHANGED fetchVars
    /\ UNCHANGED mongoVars
    /\ UNCHANGED sumVars

\* lines 304-305: llm_parse returns what json.loads made of the model's text
ExtractLlm ==
    /\ bpc = "parse"
    /\ use_llm
    /\ \E answer \in LlmIntents \cup {LlmNonObject} : parsed' = answer
    /\ parsed_by' = "llm"
    /\ bpc' = "normalize"
    /\ UNCHANGED <<query, use_llm, dwh_sql, indigo_sql, mongo_filter>>
    /\ UNCHANGED mergeVars
    /\ UNCHANGED fetchVars
    /\ UNCHANGED mongoVars
    /\ UNCHANGED sumVars

\* lines 312-313 raise AttributeError: parsed has no get, or a city has no strip
NormalizeRaises(p) ==
    \/ ~IsDict(p)
    \/ fuzzy_city_normalize_raises(Get(p, "origin"))
    \/ fuzzy_city_normalize_raises(Get(p, "destination"))

\* lines 312-313
NormalizeCities ==
    /\ bpc = "normalize"
    /\ IF NormalizeRaises(parsed)
       THEN /\ bpc' = "raised"
            /\ UNCHANGED parsed
       ELSE /\ bpc' = "build"
            /\ parsed' = [parsed EXCEPT
                             !["origin"] = fuzzy_city_normalize(Get(parsed, "origin")),
                             !["destination"] = fuzzy_city_normalize(Get(parsed, "destination"))]
    /\ UNCHANGED <<query, use_llm, parsed_by, dwh_sql, indigo_sql, mongo_filter>>
    /\ UNCHANGED mergeVars
    /\ UNCHANGED fetchVars
    /\ UNCHANGED mongoVars
    /\ UNCHANGED sumVars

\* lines 315-317
BuildQuerySpecs ==
    /\ bpc = "build"
    /\ dwh_sql' = build_param_sql_dwh(parsed)
    /\ indigo_sql' = build_param_sql_indigo(parsed)
    /\ mongo_filter' = build_mongo_filter(parsed)
    /\ bpc' = "built"
    /\ UNCHANGED <<query, use_llm, parsed, parsed_by>>
    /\ UNCHANGED mergeVars
    /\ UNCHANGED fetchVars
    /\ UNCHANGED mongoVars
    /\ UNCHANGED sumVars

NextBuild == ExtractRegex \/ ExtractLlm \/ NormalizeCities \/ BuildQuerySpecs

SpecBuild == InitBuild /\ [][NextBuild]_vars

(***************************************************************************)
(* The executors (federator.py lines 75-84, 128-188) and the airline       *)
(* filter (lines 228-266).                                                 *)
(***************************************************************************)
Sources == {"dwh", "indigo", "mongo"}

\* a record of flights_dwh: price is the effective price the ETL stored
DwhRecords ==
    { [flight_no |-> Str("AI123"), airline |-> Str("Air India"), price |-> Num(3000),
       seats |-> 40],
      [flight_no |-> Str("6E201"), airline |-> Str("IndiGo"), price |-> Num(2700),
       seats |-> 30] }

\* a record of indigo_src: fare is the listed fare, discount_percent its discount
IndigoRecords ==
    { [flight_no |-> Str("6E201"), airline |-> Str("IndiGo"), fare |-> Num(3000),
       discount_percent |-> Num(10)],
      [flight_no |-> Str("6E305"), airline |-> None, fare |-> Num(4500),
       discount_percent |-> Num(0)] }

\* the "pricing" mapping of a document: present or not, its base_price, its
\* "offer" (a mapping or not) with its discount, its flat discount_percent.
\* Base prices are multiples of 100, so that every effective price is whole.
Pricing(present, base, offer_is_dict, offer_discount, flat) ==
    [present |-> present, base_price |-> base, offer_is_dict |-> offer_is_dict,
     offer_discount |-> offer_discount, discount_percent |-> flat]
Pricings ==
    { Pricing(FALSE, Absent, FALSE, Absent, Absent),
      Pricing(TRUE, Num(10000), TRUE, Num(20), Num(10)),
      Pricing(TRUE, Num(10000), TRUE, None, Num(10)),
      Pricing(TRUE, Num(10000), FALSE, Absent, Absent),
      Pricing(TRUE, Num(10000), TRUE, Num(0), Num(10)),
      Pricing(TRUE, None, TRUE, Num(20), Absent) }

\* a document of airindia_flights
Documents ==
    { [flight_no |-> IF pr.present THEN Str("AI201") ELSE Absent,
       id |-> "65f0a1",
       airline_name |-> IF pr.offer_is_dict THEN Str("Air India") ELSE Absent,
       origin |-> Str("Delhi"), destination |-> Str("Mumbai"), date |-> Str("2025-01-01"),
       pricing |-> pr,
       seats_count |-> Absent,
       departure |-> Str("10:00")] : pr \in Pricings }

\* float(base) * (1 - float(disc) / 100.0)
Discounted(base, disc) == (base * (100 - disc)) \div 100

\* the flat discount_percent taken before the nested offer discount
compute_effective_price_from_mongo_FlatFirst(doc) ==
    LET pr == doc.pricing
        flat == IF pr.present THEN Get(pr, "discount_percent") ELSE None
        disc == IF flat.k = "none" /\ pr.present /\ pr.offer_is_dict
                THEN Get(pr, "offer_discount") ELSE flat
        base == IF pr.present THEN Get(pr, "base_price") ELSE None
    IN  IF base.k = "none" THEN None
        ELSE IF disc.k # "none" THEN Num(Discounted(base.n, disc.n))
        ELSE base

\* lines 174-188
compute_effective_price_from_mongo(doc) ==
    LET pr == doc.pricing
        base == IF pr.present THEN Get(pr, "base_price") ELSE None
        nested == IF pr.present /\ pr.offer_is_dict THEN Get(pr, "offer_discount") ELSE None
        disc == IF nested.k = "none"
                THEN (IF pr.present THEN Get(pr, "discount_percent") ELSE None)
                ELSE nested
    IN  IF base.k = "none" THEN None
        ELSE IF disc.k # "none" THEN Num(Discounted(base.n, disc.n))
        ELSE base

\* the row execute_mongo makes of a document (lines 160-171)
MongoRow(d) ==
    [EmptyRow EXCEPT
        !["flight_no"] = PyOr(Get(d, "flight_no"), Str(d.id)),
        !["airline"] = GetDefault(d, "airline_name", Str("Air India")),
        !["origin"] = d.origin, !["destination"] = d.destination, !["date"] = d.date,
        !["price"] = compute_effective_price_from_mongo(d),
        !["seat_count"] = Get(d, "seats_count"),
        !["departure_time"] = d.departure,
        !["source"] = Str("AirIndia")]

\* the row the DWH query selects from a record (lines 91-92)
DwhRow(rec) ==
    [EmptyRow EXCEPT
        !["flight_no"] = rec.flight_no, !["airline"] = rec.airline,
        !["origin"] = Str("Delhi"), !["destination"] = Str("Mumbai"),
        !["date"] = Str("2025-01-01"),
        !["price"] = rec.price, !["seat_count"] = Num(rec.seats),
        !["source"] = Str("DWH")]

\* the row the IndiGo query selects from a record (lines 106-107): fare as
\* price, NULL as seat_count
IndigoRow(rec) ==
    [EmptyRow EXCEPT
        !["flight_no"] = rec.flight_no, !["airline"] = rec.airline,
        !["origin"] = Str("Delhi"), !["destination"] = Str("Mumbai"),
        !["date"] = Str("2025-01-01"),
        !["departure_time"] = Str("09:30"),
        !["price"] = rec.fare, !["seat_count"] = None,
        !["source"] = Str("IndiGo")]

\* the rows an executor returns for the records its query matches
DwhRows(recs) == [i \in 1..Len(recs) |-> DwhRow(recs[i])]
IndigoRows(recs) == [i \in 1..Len(recs) |-> IndigoRow(recs[i])]
MongoRows(ds) == [i \in 1..Len(ds) |-> MongoRow(ds[i])]

\* every source failing as soon as one of them does
Executed_AllOrNothing(source, rows) == IF fails # {} THEN <<>> ELSE rows

\* what run_query_interactive holds after the executor of a source: the
\* initial [] when it raised (lines 319-331) or returned [] on an error
\* (lines 136-157), its rows otherwise
Executed(source, rows) == IF source \in fails THEN <<>> ELSE rows

\* AIRLINE_ALIASES, in the order of the dict (lines 228-239)
AIRLINE_ALIASES ==
    << <<"airindia", "Air India">>, <<"air india", "Air India">>, <<"indigo", "IndiGo">>,
       <<"spicejet", "SpiceJet">>, <<"spice jet", "SpiceJet">>, <<"vistara", "Vistara">>,
       <<"jet airways", "Jet Airways">>, <<"jet", "Jet Airways">>, <<"gofirst", "GoFirst">>,
       <<"airasia", "AirAsia">> >>

\* `needle in hay` on the lower-case strings of the model
InString(needle, hay) ==
    \/ needle = hay
    \/ needle = ""
    \/ <<needle, hay>> \in { <<"air india", "air india express">>,
                             <<"indigo", "indigo airlines">> }

\* lines 241-250
normalize_airline_token(tok) ==
    IF ~Truthy(tok) THEN None
    ELSE LET t == Lower(Strip(PyStr(tok)))
             exact == {i \in 1..Len(AIRLINE_ALIASES) : AIRLINE_ALIASES[i][1] = t}
             inside == {i \in 1..Len(AIRLINE_ALIASES) : InString(AIRLINE_ALIASES[i][1], t)}
         IN  IF exact # {} THEN Str(AIRLINE_ALIASES[Leftmost(exact)][2])
             ELSE IF inside # {} THEN Str(AIRLINE_ALIASES[Leftmost(inside)][2])
             ELSE Str(Title(Strip(PyStr(tok))))

\* match looking at the airline field alone
match_AirlineOnly(r, norm) ==
    LET a == PyOr(Get(r, "airline"), Str(""))
    IN  Truthy(a) /\ InString(Lower(PyStr(norm)), Lower(PyStr(a)))

\* lines 258-265
match(r, norm) ==
    LET a == PyOr(Get(r, "airline"), Str(""))
        src == PyOr(Get(r, "source"), Str(""))
    IN  \/ Truthy(a) /\ InString(Lower(PyStr(norm)), Lower(PyStr(a)))
        \/ Truthy(src) /\ InString(Lower(PyStr(norm)), Lower(PyStr(src)))

RECURSIVE Keep(_, _)
\* [r for r in rows if match(r)]
Keep(rows, norm) ==
    IF rows = <<>> THEN <<>>
    ELSE (IF match(Head(rows), norm) THEN <<Head(rows)>> ELSE <<>>) \o Keep(Tail(rows), norm)

\* lines 252-266
filter_rows_by_airline(rows, airline_token) ==
    IF ~Truthy(airline_token) THEN rows
    ELSE IF ~Truthy(normalize_airline_token(airline_token)) THEN rows
    ELSE Keep(rows, normalize_airline_token(airline_token))

(***************************************************************************)
(* SpecFetch: run_query_interactive from the query specs to the call of    *)
(* integrate_results (federator.py lines 319-343).                         *)
(***************************************************************************)
\* the Intents the executors are run for: an airline or none, a route or none
FetchIntents ==
    { [NullIntent EXCEPT !["airline"] = a, !["intent"] = Str("LIST")] :
        a \in {None, Str(""), Str("IndiGo"), Str("Air India"), Str("indigo airlines"),
               Str("Akasa")} }
    \cup { [NullIntent EXCEPT !["origin"] = Str("Delhi"), !["intent"] = Str("LIST")] }

RecordLists(S, n) == [1..n -> S]

InitFetch ==
    /\ query = <<"flights">>
    /\ use_llm = TRUE
    /\ parsed \in FetchIntents
    /\ parsed_by = "llm"
    /\ dwh_sql = build_param_sql_dwh(parsed)
    /\ indigo_sql = build_param_sql_indigo(parsed)
    /\ mongo_filter = build_mongo_filter(parsed)
    /\ bpc = "built"
    /\ MergeIdle
    /\ fails \in SUBSET Sources
    /\ \E nd \in 0..MaxRecords : \E ni \in 0..(MaxRecords - nd) :
       \E nm \in 0..(MaxRecords - nd - ni) :
          /\ flights_dwh \in RecordLists(DwhRecords, nd)
          /\ indigo_src \in RecordLists(IndigoRecords, ni)
          /\ docs \in RecordLists(Documents, nm)
    /\ fpc = "dwh"
    /\ executed = <<>>
    /\ MongoIdle
    /\ SumIdle

\* lines 320-325
ExecDwh ==
    /\ fpc = "dwh"
    /\ dwh_rows' = Executed("dwh", DwhRows(flights_dwh))
    /\ executed' = Append(executed, "dwh")
    /\ fpc' = "indigo"
    /\ UNCHANGED <<indigo_rows, mongo_rows, merged, owner, integrated, pc, idx>>
    /\ UNCHANGED buildVars
    /\ UNCHANGED <<fails, flights_dwh, indigo_src, docs>>
    /\ UNCHANGED mongoVars
    /\ UNCHANGED sumVars

\* lines 326-331
ExecIndigo ==
    /\ fpc = "indigo"
    /\ indigo_rows' = Executed("indigo", IndigoRows(indigo_src))
    /\ executed' = Append(executed, "indigo")
    /\ fpc' = "mongo"
    /\ UNCHANGED <<dwh_rows, mongo_rows, merged, owner, integrated, pc, idx>>
    /\ UNCHANGED buildVars
    /\ UNCHANGED <<fails, flights_dwh, indigo_src, docs>>
    /\ UNCHANGED mongoVars
    /\ UNCHANGED sumVars

\* lines 332-334: execute_mongo runs for a non-empty filter only
ExecMongo ==
    /\ fpc = "mongo"
    /\ mongo_rows' = IF mongo_filter # <<>> THEN Executed("mongo", MongoRows(docs))
                     ELSE <<>>
    /\ executed' = IF mongo_filter # <<>> THEN Append(executed, "mongo") ELSE executed
    /\ fpc' = "filter"
    /\ UNCHANGED <<dwh_rows, indigo_rows, merged, owner, integrated, pc, idx>>
    /\ UNCHANGED buildVars
    /\ UNCHANGED <<fails, flights_dwh, indigo_src, docs>>
    /\ UNCHANGED mongoVars
    /\ UNCHANGED sumVars

\* lines 337-343: the three lists as integrate_results is called with them
FilterByAirline ==
    /\ fpc = "filter"
    /\ IF Truthy(Get(parsed, "airline"))
       THEN /\ dwh_rows' = filter_rows_by_airline(dwh_rows, Get(parsed, "airline"))
            /\ indigo_rows' = filter_rows_by_airline(indigo_rows, Get(parsed, "airline"))
            /\ mongo_rows' = filter_rows_by_airline(mongo_rows, Get(parsed, "airline"))
       ELSE UNCHANGED <<dwh_rows, indigo_rows, mongo_rows>>
    /\ fpc' = "merge"
    /\ UNCHANGED executed
    /\ UNCHANGED <<merged, owner, integrated, pc, idx>>
    /\ UNCHANGED buildVars
    /\ UNCHANGED <<fails, flights_dwh, indigo_src, docs>>
    /\ UNCHANGED mongoVars
    /\ UNCHANGED sumVars

NextFetch == ExecDwh \/ ExecIndigo \/ ExecMongo \/ FilterByAirline

SpecFetch == InitFetch /\ [][NextFetch]_vars

(***************************************************************************)
(* SpecMongo: execute_mongo (federator.py lines 128-173).  A connection    *)
(* attempt or the read succeeds or raises; which, is the environment's     *)
(* choice.                                                                 *)
(***************************************************************************)
\* line 128: limit=100
DefaultLimit == 100

\* cursor.limit(n): the first n documents of the cursor
Take(ds, n) == SubSeq(ds, 1, IF n < Len(ds) THEN n ELSE Len(ds))

\* lines 138-149: where a failed verified attempt leads
AfterSecureFailure_AlwaysRetry(flag) == "insecure"
AfterSecureFailure(flag) == IF flag THEN "insecure" ELSE "returned"

InitMongo ==
    /\ mongo_uri \in BOOLEAN
    /\ allow_invalid_certs \in BOOLEAN
    /\ \E n \in 0..MaxRecords : coll \in RecordLists(Documents, n)
    /\ limit \in {1, DefaultLimit}
    /\ connects = <<>>
    /\ reads = <<>>
    /\ docs = <<>>
    /\ mongo_rows = <<>>
    /\ mpc = "start"
    /\ dwh_rows = <<>>
    /\ indigo_rows = <<>>
    /\ merged = <<>>
    /\ owner = <<>>
    /\ integrated = <<>>
    /\ pc = "idle"
    /\ idx = 0
    /\ BuildIdle
    /\ fails = {}
    /\ flights_dwh = <<>>
    /\ indigo_src = <<>>
    /\ fpc = "idle"
    /\ executed = <<>>
    /\ SumIdle

\* lines 129-131
CheckUri ==
    /\ mpc = "start"
    /\ mpc' = IF mongo_uri THEN "secure" ELSE "returned"
    /\ UNCHANGED <<mongo_uri, allow_invalid_certs, coll, limit, connects, reads>>
    /\ UNCHANGED <<mongo_rows, docs>>
    /\ UNCHANGED <<dwh_rows, indigo_rows, merged, owner, integrated, pc, idx>>
    /\ UNCHANGED buildVars
    /\ UNCHANGED <<fails, flights_dwh, indigo_src, fpc, executed>>
    /\ UNCHANGED sumVars

\* lines 132-136 and the branch of lines 138, 147-149
ConnectSecure ==
    /\ mpc = "secure"
    /\ \E ok \in BOOLEAN :
          /\ connects' = Append(connects, [mode |-> "verified", ok |-> ok])
          /\ mpc' = IF ok THEN "read" ELSE AfterSecureFailure(allow_invalid_certs)
    /\ UNCHANGED <<mongo_uri, allow_invalid_certs, coll, limit, reads>>
    /\ UNCHANGED <<mongo_rows, docs>>
    /\ UNCHANGED <<dwh_rows, indigo_rows, merged, owner, integrated, pc, idx>>
    /\ UNCHANGED buildVars
    /\ UNCHANGED <<fails, flights_dwh, indigo_src, fpc, executed>>
    /\ UNCHANGED sumVars

\* lines 140-146
ConnectInsecure ==
    /\ mpc = "insecure"
    /\ \E ok \in BOOLEAN :
          /\ connects' = Append(connects, [mode |-> "unverified", ok |-> ok])
          /\ mpc' = IF ok THEN "read" ELSE "returned"
    /\ UNCHANGED <<mongo_uri, allow_invalid_certs, coll, limit, reads>>
    /\ UNCHANGED <<mongo_rows, docs>>
    /\ UNCHANGED <<dwh_rows, indigo_rows, merged, owner, integrated, pc, idx>>
    /\ UNCHANGED buildVars
    /\ UNCHANGED <<fails, flights_dwh, indigo_src, fpc, executed>>
    /\ UNCHANGED sumVars

\* lines 150-157
ReadDocuments ==
    /\ mpc = "read"
    /\ \E ok \in BOOLEAN :
          /\ reads' = Append(reads, ok)
          /\ docs' = IF ok THEN Take(coll, limit) ELSE <<>>
          /\ mpc' = IF ok THEN "rows" ELSE "returned"
    /\ UNCHANGED <<mongo_uri, allow_invalid_certs, coll, limit, connects>>
    /\ UNCHANGED mongo_rows
    /\ UNCHANGED <<dwh_rows, indigo_rows, merged, owner, integrated, pc, idx>>
    /\ UNCHANGED buildVars
    /\ UNCHANGED <<fails, flights_dwh, indigo_src, fpc, executed>>
    /\ UNCHANGED sumVars

\* lines 158-173
BuildRows ==
    /\ mpc = "rows"
    /\ mongo_rows' = MongoRows(docs)
    /\ mpc' = "returned"
    /\ UNCHANGED <<mongo_uri, allow_invalid_certs, coll, limit, connects, reads>>
    /\ UNCHANGED docs
    /\ UNCHANGED <<dwh_rows, indigo_rows, merged, owner, integrated, pc, idx>>
    /\ UNCHANGED buildVars
    /\ UNCHANGED <<fails, flights_dwh, indigo_src, fpc, executed>>
    /\ UNCHANGED sumVars

NextMongo == CheckUri \/ ConnectSecure \/ ConnectInsecure \/ ReadDocuments \/ BuildRows

SpecMongo == InitMongo /\ [][NextMongo]_vars

(***************************************************************************)
(* SpecSummary: run_query_interactive after the merge (federator.py lines  *)
(* 345-435) with safe_call_llm and the retried provider call               *)
(* (llm_client.py lines 133-217).  What the provider answers at each       *)
(* attempt is the environment's choice.                                    *)
(***************************************************************************)
MaxMerged == 4

\* llm_client.py lines 133, 161: stop_after_attempt(3)
MaxAttempts == 3

\* merged rows as integrate_results returns them: price a float or None
SumRow(flight_no, airline, price) ==
    [EmptyRow EXCEPT !["flight_no"] = Str(flight_no), !["airline"] = Str(airline),
                     !["price"] = price, !["source"] = Str(airline)]

SummaryRows ==
    { SumRow("6E201", "IndiGo", Num(3000)), SumRow("AI123", "AirIndia", Num(4500)),
      SumRow("6E305", "IndiGo", Num(4500)), SumRow("AI201", "AirIndia", Num(8000)),
      SumRow("AI999", "AirIndia", None) }

\* the lists integrate_results can return over these rows (lines 297-299)
SummaryLists ==
    { StableSort(l) :
        l \in { q \in UNION { [1..n -> SummaryRows] : n \in 0..MaxMerged } :
                  \A i, j \in 1..Len(q) : i # j => q[i] # q[j] } }

JsonText == "{\"notes\": \"ok\"}"
PaddedJson == " {\"notes\": \"ok\"} "
\* [fence] stands for the Markdown code fence of three backquotes
FencedJson == "[fence]json {\"notes\": \"ok\"} [fence]"
FencedProse == "[fence] AI123 is cheapest [fence]"
ProseWithJson == "Summary: {\"notes\": \"ok\"} Done."
ProseWithBraces == "The {cheapest} is AI123"
Prose == "AI123 is cheapest"

\* the texts a provider answers with
ModelTexts ==
    {"", "  ", JsonText, PaddedJson, FencedJson, FencedProse, ProseWithJson,
     ProseWithBraces, Prose}

\* one attempt's outcome: an exception, or a response whose text is None or a string
ProviderAnswers ==
    { [kind |-> "raise", text |-> None], [kind |-> "text", text |-> None] }
    \cup { [kind |-> "text", text |-> Str(t)] : t \in ModelTexts }

\* line 359: text starts with a fence and ends with one
Fenced(t) == t \in {FencedJson, FencedProse}

\* s != -1 and e != -1 and e > s for s = find("{"), e = rfind("}")
HasBraces(t) == t \in {JsonText, PaddedJson, FencedJson, ProseWithJson, ProseWithBraces}

\* text[s:e+1]
BraceSlice(t) ==
    IF t \in {JsonText, PaddedJson, FencedJson, ProseWithJson} THEN JsonText
    ELSE IF t = ProseWithBraces THEN "{cheapest}"
    ELSE t

\* json.loads raises on a text that is no JSON document
json_loads_raises(t) == t \notin {JsonText, PaddedJson}

\* json.loads: the dict of the one JSON document among the texts
json_loads(t) == [k |-> "dict", n |-> 0, s |-> "{'notes': 'ok'}"]

\* federator.py lines 359-363
Unfence(t) == IF Fenced(t) /\ HasBraces(t) THEN BraceSlice(t) ELSE t

\* str(price) of a float with no fraction
FormatFloat(n) == ToString(n) \o ".0"

\* f"{r.get('flight_no')}({r.get('price')})"
Render(r) ==
    PyStr(Get(r, "flight_no")) \o "(" \o
    (IF Get(r, "price").k = "num" THEN FormatFloat(Get(r, "price").n) ELSE "None") \o ")"

\* [r for r in integrated if r.get("price") is not None]
Priced_All(rows) == rows
Priced(rows) == SelectSeq(rows, LAMBDA r : Get(r, "price").k # "none")

\* list.sort(key=lambda x: x.get("price")): stable, ascending
RECURSIVE InsertByPrice(_, _)
InsertByPrice(s, x) ==
    IF s = <<>> THEN <<x>>
    ELSE IF Get(s[Len(s)], "price").n <= Get(x, "price").n THEN Append(s, x)
    ELSE Append(InsertByPrice(SubSeq(s, 1, Len(s) - 1), x), s[Len(s)])

RECURSIVE SortByPrice(_)
SortByPrice(s) ==
    IF s = <<>> THEN <<>>
    ELSE InsertByPrice(SortByPrice(SubSeq(s, 1, Len(s) - 1)), s[Len(s)])

\* sorted_rows[:3]
Top3(rows) == SubSeq(rows, 1, IF Len(rows) < 3 THEN Len(rows) ELSE 3)

\* ", ".join(parts)
RECURSIVE JoinComma(_)
JoinComma(parts) ==
    IF parts = <<>> THEN ""
    ELSE IF Len(parts) = 1 THEN parts[1]
    ELSE JoinComma(SubSeq(parts, 1, Len(parts) - 1)) \o ", " \o parts[Len(parts)]

\* lines 368-371, 377-380: the fallback summary under a label
Fallback(label, rows) ==
    "DETERMINISTIC FALLBACK (" \o label \o "): " \o
    JoinComma([i \in 1..Len(Top3(SortByPrice(Priced(rows)))) |->
                  Render(Top3(SortByPrice(Priced(rows)))[i])])

\* tenacity's stop_after_attempt
Exhausted_AfterFour(n) == n >= MaxAttempts + 1
Exhausted(n) == n >= MaxAttempts

\* llm_client.py lines 212-217: what safe_call_llm returns for the outcome of _call_groq
SafeResult_NoStrip(answer) ==
    IF answer.kind = "raise" \/ answer.text.k = "none"
    THEN [kind |-> "error", text |-> ""]
    ELSE [kind |-> "text", text |-> answer.text.s]
SafeResult(answer) ==
    IF answer.kind = "raise" \/ answer.text.k = "none"
    THEN [kind |-> "error", text |-> ""]
    ELSE [kind |-> "text", text |-> Strip(answer.text.s)]

\* federator.py lines 396-407
parse_summary(summary) ==
    IF ~Truthy(summary) THEN None
    ELSE IF ~json_loads_raises(summary.s) THEN json_loads(summary.s)
    ELSE IF HasBraces(summary.s) /\ ~json_loads_raises(BraceSlice(summary.s))
         THEN json_loads(BraceSlice(summary.s))
    ELSE None

InitSummary ==
    /\ integrated \in SummaryLists
    /\ use_llm \in BOOLEAN
    /\ api_key \in BOOLEAN
    /\ tries = 0
    /\ provider_log = <<>>
    /\ resp = [kind |-> "unset", text |-> ""]
    /\ llm_summary = None
    /\ llm_parsed = None
    /\ llm_raw = "unset"
    /\ spc = "start"
    /\ dwh_rows = <<>>
    /\ indigo_rows = <<>>
    /\ mongo_rows = <<>>
    /\ merged = <<>>
    /\ owner = <<>>
    /\ pc = "idle"
    /\ idx = 0
    /\ query = <<>>
    /\ parsed = <<>>
    /\ parsed_by = "none"
    /\ dwh_sql = <<>>
    /\ indigo_sql = <<>>
    /\ mongo_filter = <<>>
    /\ bpc = "idle"
    /\ FetchIdle
    /\ MongoIdle

\* federator.py lines 351-354 and 375-383
StartSummary ==
    /\ spc = "start"
    /\ IF use_llm
       THEN /\ spc' = "call"
            /\ UNCHANGED <<llm_summary, llm_raw>>
       ELSE /\ llm_summary' = Str(Fallback("no LLM", integrated))
            /\ llm_raw' = "note"
            /\ spc' = "parse"
    /\ UNCHANGED <<api_key, tries, provider_log, resp, llm_parsed>>
    /\ UNCHANGED mergeVars
    /\ UNCHANGED buildVars
    /\ UNCHANGED fetchVars
    /\ UNCHANGED mongoVars

\* one attempt of the retried call (llm_client.py lines 133-193) and, when it
\* is the last one, the return of safe_call_llm (lines 211-217); without an
\* API key the attempt raises before it reaches the provider (136-137, 164-165)
Attempt ==
    /\ spc = "call"
    /\ ~Exhausted(tries)
    /\ tries' = tries + 1
    /\ \E answer \in ProviderAnswers :
          /\ ~api_key => answer.kind = "raise" /\ answer.text = None
          /\ provider_log' = IF api_key THEN Append(provider_log, answer) ELSE provider_log
          /\ IF answer.kind = "raise" /\ ~Exhausted(tries + 1)
             THEN /\ spc' = "call"
                  /\ UNCHANGED resp
             ELSE /\ spc' = "summarize"
                  /\ resp' = SafeResult(answer)
    /\ UNCHANGED <<api_key, llm_summary, llm_parsed, llm_raw>>
    /\ UNCHANGED mergeVars
    /\ UNCHANGED buildVars
    /\ UNCHANGED fetchVars
    /\ UNCHANGED mongoVars

\* federator.py lines 356-374
Summarize ==
    /\ spc = "summarize"
    /\ IF resp.kind = "text" /\ resp.text # ""
       THEN /\ llm_summary' = Str(Unfence(Strip(resp.text)))
            /\ llm_raw' = "raw"
       ELSE /\ llm_summary' = Str(Fallback("LLM call failed", integrated))
            /\ llm_raw' = "resp"
    /\ spc' = "parse"
    /\ UNCHANGED <<api_key, tries, provider_log, resp, llm_parsed>>
    /\ UNCHANGED mergeVars
    /\ UNCHANGED buildVars
    /\ UNCHANGED fetchVars
    /\ UNCHANGED mongoVars

\* federator.py lines 395-407
ParseSummary ==
    /\ spc = "parse"
    /\ llm_parsed' = parse_summary(llm_summary)
    /\ spc' = "emit"
    /\ UNCHANGED <<api_key, tries, provider_log, resp, llm_summary, llm_raw>>
    /\ UNCHANGED mergeVars
    /\ UNCHANGED buildVars
    /\ UNCHANGED fetchVars
    /\ UNCHANGED mongoVars

\* federator.py lines 409-435
EmitResult ==
    /\ spc = "emit"
    /\ spc' = "done"
    /\ UNCHANGED <<api_key, tries, provider_log, resp, llm_summary, llm_parsed, llm_raw>>
    /\ UNCHANGED mergeVars
    /\ UNCHANGED buildVars
    /\ UNCHANGED fetchVars
    /\ UNCHANGED mongoVars

NextSummary == StartSummary \/ Attempt \/ Summarize \/ ParseSummary \/ EmitResult

SpecSummary == InitSummary /\ [][NextSummary]_vars

(***************************************************************************)
(* Claims about integrate_results.                                         *)
(***************************************************************************)
Loops == {"dwh", "indigo", "mongo"}

\* the input row the running loop folds in this step, as the loop sees it
CurrentRow ==
    normalize_row(IF pc = "dwh" THEN dwh_rows[idx]
                  ELSE IF pc = "indigo" THEN indigo_rows[idx]
                  ELSE mongo_rows[idx])

HasValue(v) == ~IsEmptyValue(v)

\* every non-null, non-empty field of every record of dict m is in the
\* returned row of the same key, unchanged
KeptInResult(m) ==
    \A i \in 1..Len(m) : \A f \in Fields :
        HasValue(Get(m[i].rec, f)) =>
            \E j \in 1..Len(integrated) :
                /\ Get(integrated[j], "flight_no") = m[i].key
                /\ integrated[j][f] = m[i].rec[f]

ScenarioA == MkRow(1, <<Str("AI123"), Str("DWH"), Str("Delhi")>>, <<None, Num(40), Absent>>)
ScenarioB == MkRow(2, <<Str("AI123"), Str("IndiGo"), Str("Delhi")>>, <<Num(4500), None, Absent>>)

\* a loop iteration on a key already in the dict fills every empty field
\* for which the row has a value
C2_Step ==
    pc \in Loops =>
        LET r == CurrentRow
            i == IndexOfKey(merged, KeyOf(r))
        IN  i # 0 =>
                \A f \in Fields :
                    (IsEmptyValue(Get(merged[i].rec, f)) /\ r[f].k \notin {"absent", "none"})
                        => merged'[i].rec[f] = r[f]

\* C2: in every loop iteration whose row has a key that is already in the
\* merged dict, every field that is null or "" in the merged record and
\* non-null in the row takes the row's value; and merging the DWH row
\* {price: null, seat_count: 40} with the IndiGo row {price: 4500,
\* seat_count: null} of the same flight_no returns one row with price 4500
\* and seat_count 40.
C2_FillsEmptyFields ==
    /\ [][C2_Step]_vars
    /\ []((pc = "done" /\ dwh_rows = <<ScenarioA>> /\ indigo_rows = <<ScenarioB>>
              /\ mongo_rows = <<>>)
            => (/\ Len(integrated) = 1
                /\ integrated[1]["price"] = Num(4500)
                /\ integrated[1]["seat_count"] = Num(40)))

C2_Witness ==
    /\ pc = "done"
    /\ dwh_rows = <<ScenarioA>>
    /\ indigo_rows = <<ScenarioB>>
    /\ mongo_rows = <<>>
    /\ Len(integrated) = 1
    /\ integrated[1]["price"] = Num(4500)

RECURSIVE FirstKeys(_, _)
\* the keys of rows, each once, in the order of their first occurrence
FirstKeys(seen, rows) ==
    IF rows = <<>> THEN seen
    ELSE LET key == KeyOf(normalize_row(Head(rows)))
         IN  FirstKeys(IF \E i \in 1..Len(seen) : seen[i] = key THEN seen
                       ELSE Append(seen, key), Tail(rows))

PriceOf(rec) == Get(rec, "price")

\* position of a returned row in the insertion order of the merged dict
InsertionIndex(rec) == IndexOfKey(merged, Get(rec, "flight_no"))

\* C3: the returned list holds the merged records, each once; prices ascend,
\* every null price is behind every non-null price, and rows of equal price
\* (or both null) are in the order their keys were first inserted, which is
\* DWH rows first, then new IndiGo keys, then new Mongo keys.
C3_SortedByPrice ==
    pc = "done" =>
        /\ Len(integrated) = Len(merged)
        /\ \A i \in 1..Len(merged) : \E j \in 1..Len(integrated) : integrated[j] = merged[i].rec
        /\ [i \in 1..Len(merged) |-> merged[i].key]
              = FirstKeys(<<>>, dwh_rows \o indigo_rows \o mongo_rows)
        /\ \A a \in 1..Len(integrated) : \A b \in 1..Len(integrated) :
              a < b =>
                  /\ PriceOf(integrated[a]).k = "none" => PriceOf(integrated[b]).k = "none"
                  /\ (PriceOf(integrated[a]).k = "num" /\ PriceOf(integrated[b]).k = "num")
                        => PriceOf(integrated[a]).n <= PriceOf(integrated[b]).n
                  /\ PriceOf(integrated[a]) = PriceOf(integrated[b])
                        => InsertionIndex(integrated[a]) < InsertionIndex(integrated[b])

\* three returned rows: a priced one, then two of null price whose keys were
\* inserted in that order, the first of them before the priced one
C3_Witness ==
    /\ pc = "done"
    /\ Len(integrated) = 3
    /\ PriceOf(integrated[1]).k = "num"
    /\ PriceOf(integrated[2]).k = "none"
    /\ PriceOf(integrated[3]).k = "none"
    /\ InsertionIndex(integrated[2]) < InsertionIndex(integrated[1])
    /\ InsertionIndex(integrated[2]) < InsertionIndex(integrated[3])

\* C4: the result fed back as the first list, with two empty lists, is
\* returned again: the same rows in the same order.
C4_Idempotent ==
    pc = "done" => integrate_results(integrated, <<>>, <<>>) = integrated

\* a loop iteration inserts the row under a new key, or leaves every
\* non-empty field of the record of its key as it is
C5_Step ==
    pc \in Loops =>
        LET r == CurrentRow
            i == IndexOfKey(merged, KeyOf(r))
        IN  IF i = 0 THEN merged' = Append(merged, [key |-> KeyOf(r), rec |-> r])
            ELSE \A f \in Fields :
                    HasValue(Get(merged[i].rec, f)) => merged'[i].rec[f] = merged[i].rec[f]

\* C5: every loop iteration, of any of the three loops, inserts the row
\* verbatim when its key is new, and otherwise changes no non-null, non-empty
\* field of the merged record of that key.
C5_FillOnlyInEveryLoop == [][C5_Step]_vars

LacksFlightNo(r) == ~Truthy(Get(r, "flight_no"))

SameRoute(a, b) ==
    /\ Get(normalize_row(a), "origin") = Get(normalize_row(b), "origin")
    /\ Get(normalize_row(a), "destination") = Get(normalize_row(b), "destination")
    /\ Get(a, "date") = Get(b, "date")

\* the three argument lists, in priority order
InputLists == <<dwh_rows, indigo_rows, mongo_rows>>

\* rows a and b both lack a flight_no and have the same origin, destination
\* and date
Colliding(a, b) == LacksFlightNo(a) /\ LacksFlightNo(b) /\ SameRoute(a, b)

SourceLabel(r) == PyStr(GetDefault(r, "source", Str("UNKNOWN")))

KeyedBySource(a, b) ==
    /\ KeyOf(normalize_row(a)) = SynthFlightNo(normalize_row(a))
    /\ (KeyOf(normalize_row(a)) = KeyOf(normalize_row(b))) <=> (SourceLabel(a) = SourceLabel(b))
    /\ \E i \in 1..Len(merged) : merged[i].key = KeyOf(normalize_row(a))
    /\ \E i \in 1..Len(merged) : merged[i].key = KeyOf(normalize_row(b))

IsNull(v) == v.k \in {"none", "absent"}

PricePredicates == {"price < %s", "fare < %s"}

\* C7: when the Intent's price_limit is null, no query spec holds a price
\* predicate: no "price <" in the DWH query, no "fare <" in the IndiGo query,
\* no pricing.base_price entry in the Mongo filter, whatever the intent kind.
C7_NoPricePredicate ==
    (bpc = "built" /\ IsNull(parsed["price_limit"])) =>
        /\ \A i \in 1..Len(dwh_sql.where) : dwh_sql.where[i] \notin PricePredicates
        /\ \A i \in 1..Len(indigo_sql.where) : indigo_sql.where[i] \notin PricePredicates
        /\ \A i \in 1..Len(mongo_filter) : mongo_filter[i].path # "pricing.base_price"

\* a selection with other filters and no price limit
C7_Witness ==
    /\ bpc = "built"
    /\ IsNull(parsed["price_limit"])
    /\ Len(dwh_sql.where) >= 2
    /\ Len(mongo_filter) >= 3

IntentWord(p) == GetDefault(p, "intent", Str("LIST"))
IsAvgAnyCase(p) == IntentWord(p).k = "str" /\ IntentWord(p).s \in {"AVG", "avg", "Avg"}
IsMinAnyCase(p) == IntentWord(p).k = "str" /\ IntentWord(p).s \in {"MIN", "min", "Min"}

Claimed(p, f, text) == IF IsNull(p[f]) THEN <<>> ELSE <<text>>
ClaimedParam(p, f) == IF IsNull(p[f]) THEN <<>> ELSE <<p[f]>>
ClaimedParams(p) ==
    ClaimedParam(p, "origin") \o ClaimedParam(p, "destination") \o ClaimedParam(p, "date")
        \o ClaimedParam(p, "price_limit") \o ClaimedParam(p, "seat_count")
        \o ClaimedParam(p, "airline")

\* C8: for an intent kind other than AVG, both relational builders emit one
\* predicate with one parameter for every non-null Intent field (origin,
\* destination, date, price_limit, seat_count, airline), a numeric 0
\* included, none for a null field, parameters in predicate order.
C8_PredicatePerNonNullField ==
    (bpc = "built" /\ ~IsAvgAnyCase(parsed)) =>
        /\ dwh_sql.where =
              Claimed(parsed, "origin", "origin = %s")
                \o Claimed(parsed, "destination", "destination = %s")
                \o Claimed(parsed, "date", "flight_date = %s")
                \o Claimed(parsed, "price_limit", "price < %s")
                \o Claimed(parsed, "seat_count", "array_length(seats,1) > %s")
                \o Claimed(parsed, "airline", "airline = %s")
        /\ dwh_sql.params = ClaimedParams(parsed)
        /\ indigo_sql.where =
              Claimed(parsed, "origin", "from_city = %s")
                \o Claimed(parsed, "destination", "to_city = %s")
                \o Claimed(parsed, "date", "journey_date = %s")
                \o Claimed(parsed, "price_limit", "fare < %s")
                \o Claimed(parsed, "seat_count", "array_length(seats,1) > %s")
                \o Claimed(parsed, "airline", "airline = %s")
        /\ indigo_sql.params = ClaimedParams(parsed)

\* C9: for intent kind AVG both relational builders emit the aggregate query
\* with the predicates and parameters of origin and destination only; date,
\* price_limit, seat_count and airline are ignored; no ORDER BY, no LIMIT.
C9_AvgOriginDestinationOnly ==
    (bpc = "built" /\ IsAvgAnyCase(parsed)) =>
        /\ dwh_sql.head = "SELECT AVG(price) AS avg_price FROM flights_dwh"
        /\ dwh_sql.where = <<"origin = %s", "destination = %s">>
        /\ dwh_sql.params = <<Get(parsed, "origin"), Get(parsed, "destination")>>
        /\ dwh_sql.tail = ""
        /\ indigo_sql.head = "SELECT AVG(fare) AS avg_price FROM indigo_src"
        /\ indigo_sql.where = <<"from_city = %s", "to_city = %s">>
        /\ indigo_sql.params = <<Get(parsed, "origin"), Get(parsed, "destination")>>
        /\ indigo_sql.tail = ""

\* an AVG intent that also carries a price limit, built into two parameters
C9_Witness ==
    /\ bpc = "built"
    /\ IsAvgAnyCase(parsed)
    /\ Truthy(Get(parsed, "price_limit"))
    /\ Truthy(Get(parsed, "origin"))
    /\ Len(dwh_sql.params) = 2

CheapestIndigoQuery == <<"cheapest", "IndiGo", "flight", "from", "Delhi", "to", "Bangalore">>

\* C10: for intent kind MIN, in any letter case, both relational builders
\* put an ascending price order and a limit of 1 behind the predicates; for
\* any other kind but AVG they put nothing there; and the deterministic
\* pipeline turns "cheapest IndiGo flight from Delhi to Bangalore" into intent
\* MIN, airline IndiGo and a DWH query with origin = Delhi, destination =
\* Bangalore, ORDER BY price ASC LIMIT 1.
C10_MinOrdersByPrice ==
    bpc = "built" =>
        /\ IsMinAnyCase(parsed) =>
              /\ dwh_sql.tail = "ORDER BY price ASC LIMIT 1"
              /\ indigo_sql.tail = "ORDER BY fare ASC LIMIT 1"
        /\ (~IsMinAnyCase(parsed) /\ ~IsAvgAnyCase(parsed)) =>
              /\ dwh_sql.tail = ""
              /\ indigo_sql.tail = ""
        /\ (query = CheapestIndigoQuery /\ parsed_by = "regex") =>
              /\ parsed["intent"] = Str("MIN")
              /\ parsed["airline"] = Str("IndiGo")
              /\ dwh_sql.where = <<"origin = %s", "destination = %s">>
              /\ dwh_sql.params = <<Str("Delhi"), Str("Bangalore")>>
              /\ dwh_sql.tail = "ORDER BY price ASC LIMIT 1"

C10_Witness ==
    /\ bpc = "built"
    /\ query = CheapestIndigoQuery
    /\ parsed_by = "regex"
    /\ dwh_sql.tail = "ORDER BY price ASC LIMIT 1"
    /\ dwh_sql.params = <<Str("Delhi"), Str("Bangalore")>>

(***************************************************************************)
(* Claims about the query specs as a whole and about intent extraction.    *)
(***************************************************************************)
\* the Intent field a predicate or a filter path constrains
DwhField(text) ==
    CASE text = "origin = %s" -> "origin"
      [] text = "destination = %s" -> "destination"
      [] text = "flight_date = %s" -> "date"
      [] text = "price < %s" -> "price"
      [] text = "array_length(seats,1) > %s" -> "seats"
IndigoField(text) ==
    CASE text = "from_city = %s" -> "origin"
      [] text = "to_city = %s" -> "destination"
      [] text = "journey_date = %s" -> "date"
      [] text = "fare < %s" -> "price"
      [] text = "array_length(seats,1) > %s" -> "seats"
MongoField(path) ==
    CASE path = "route.origin" -> "origin"
      [] path = "route.destination" -> "destination"
      [] path = "schedule.date" -> "date"
      [] path = "pricing.base_price" -> "price"
      [] path = "availability.seats_count" -> "seats"
      [] path = "airline_name" -> "airline"
ConstrainedDwh == {DwhField(dwh_sql.where[i]) : i \in 1..Len(dwh_sql.where)}
ConstrainedIndigo == {IndigoField(indigo_sql.where[i]) : i \in 1..Len(indigo_sql.where)}
ConstrainedMongo == {MongoField(mongo_filter[i].path) : i \in 1..Len(mongo_filter)}

\* C11: for every Intent the three query specs constrain the same set of
\* fields among origin, destination, date, price, seats and airline: a field
\* constrained in one source's query spec is constrained in the other two.
C11_SameFieldsConstrained ==
    bpc = "built" =>
        /\ ConstrainedDwh = ConstrainedIndigo
        /\ ConstrainedIndigo = ConstrainedMongo

Extracted == {"normalize", "build", "built"}

\* C12: the intent kind stored in the parsed Intent of a result is exactly
\* one of LIST, MIN, AVG, on the deterministic and on the model-backed path.
C12_IntentKindNormalized ==
    bpc = "built" => parsed["intent"] \in {Str("LIST"), Str("MIN"), Str("AVG")}

\* an Intent with all seven fields, each null or of its type
ValidIntent(p) ==
    /\ IsDict(p)
    /\ \A f \in {"airline", "origin", "destination", "date"} : p[f].k \in {"none", "str"}
    /\ \A f \in {"price_limit", "seat_count"} : p[f].k \in {"none", "num"}
    /\ p["intent"].k = "str"

\* C13: intent extraction never fails: whatever the query text and whatever
\* the model answers, no exception leaves the pipeline and the Intent handed
\* on has all seven fields, each null or of its type.
C13_ExtractionNeverFails ==
    /\ bpc # "raised"
    /\ bpc \in Extracted => ValidIntent(parsed)

Scenario1Intent ==
    [airline |-> None, origin |-> Str("Delhi"), destination |-> Str("Mumbai"),
     date |-> Str(TomorrowIso), price_limit |-> Num(5000), seat_count |-> None,
     intent |-> Str("LIST")]

\* the first "from X to Y" of the query, as the place of "from"
FirstFromTo(i) ==
    /\ Lower(query[i]) = "from" /\ Lower(query[i + 2]) = "to"
    /\ \A j \in 1..(i - 1) : ~(Lower(query[j]) = "from" /\ Lower(query[j + 2]) = "to")
\* digits at place i behind a trigger word under / below / less than
PriceTriggered(i) ==
    /\ IsDigits(query[i])
    /\ \/ Lower(query[i - 1]) \in {"under", "below"}
       \/ (i > 2 /\ Lower(query[i - 2]) = "less" /\ Lower(query[i - 1]) = "than")
FirstPriceTriggered(i) == PriceTriggered(i) /\ \A j \in 2..(i - 1) : ~PriceTriggered(j)

\* C14: with deterministic parsing "flights from Delhi to Mumbai tomorrow under
\* 5000" yields origin Delhi, destination Mumbai, tomorrow's date, price_limit
\* 5000, no airline, no seat_count, intent LIST; in general "from X to Y" sets
\* origin X and destination Y (lower-cased by the parser, then spelled as
\* the city normalizer spells them) and a trigger word under / below / less
\* than followed by digits sets price_limit to the digits.
C14_FromToAndPrice ==
    (parsed_by = "regex" /\ bpc \in Extracted) =>
        /\ (query = Scenario1Query /\ bpc # "normalize") => parsed = Scenario1Intent
        /\ \A i \in 1..(Len(query) - 3) : FirstFromTo(i) =>
              IF bpc = "normalize"
              THEN /\ parsed["origin"] = Str(Lower(query[i + 1]))
                   /\ parsed["destination"] = Str(Lower(query[i + 3]))
              ELSE /\ parsed["origin"] = fuzzy_city_normalize(Str(Lower(query[i + 1])))
                   /\ parsed["destination"] = fuzzy_city_normalize(Str(Lower(query[i + 3])))
        /\ \A i \in 2..Len(query) : FirstPriceTriggered(i) =>
              parsed["price_limit"] = Num(IntOf(query[i]))

C14_Witness ==
    /\ bpc = "built"
    /\ parsed_by = "regex"
    /\ query = Scenario1Query
    /\ parsed["price_limit"] = Num(5000)
    /\ dwh_sql.params = <<Str("Delhi"), Str("Mumbai"), Str(TomorrowIso), Num(5000)>>

IsoLiterals == {"2025-03-10"}
IsoAt(q) == {i \in 1..Len(q) : q[i] \in IsoLiterals}

\* the date the stated priority gives: ISO literal, tomorrow / today, day and
\* month name, null
ClaimedDate(q) ==
    IF IsoAt(q) # {} THEN Str(q[Leftmost(IsoAt(q))])
    ELSE IF Contains(q, "tomorrow") THEN Str(TomorrowIso)
    ELSE IF Contains(q, "today") THEN Str(TodayIso)
    ELSE IF DayMonthAt(q) # {}
         THEN Str(DayMonthIso(q[Leftmost(DayMonthAt(q))], q[Leftmost(DayMonthAt(q)) + 1]))
         ELSE None

\* C15: the deterministic date resolver gives an ISO date literal of the
\* query priority over everything else; else tomorrow is the current date
\* plus one day and today the current date; else a day and month name is that
\* day of the current year; else the date is null.
C15_DatePriority ==
    (parsed_by = "regex" /\ bpc \in Extracted) =>
        parsed["date"] = ClaimedDate(LowerText(query))

CanonicalSet == {CANONICAL_CITIES[i] : i \in 1..Len(CANONICAL_CITIES)}
StringOrNull(v) == v.k \in {"none", "str"}

C16_Step ==
    (bpc = "normalize" /\ bpc' # "normalize" /\ IsDict(parsed)) =>
        \A f \in {"origin", "destination"} :
            /\ Get(parsed, f).k = "none" => (bpc' = "raised" \/ parsed'[f] = None)
            /\ (StringOrNull(Get(parsed, "origin")) /\ StringOrNull(Get(parsed, "destination")))
                  => bpc' = "build"
            /\ (Get(parsed, f).k = "str" /\ Get(parsed, f).s \in CanonicalSet \cup AliasKeys) =>
                  /\ bpc' = "raised" \/ parsed'[f].s \in CanonicalSet
                  /\ Get(parsed, f).s \in CanonicalSet => (bpc' = "raised" \/ parsed'[f] = parsed[f])
                  /\ bpc' = "raised" \/ fuzzy_city_normalize(parsed'[f]) = parsed'[f]

\* C16: fuzzy_city_normalize returns null for null input, raises for no
\* string input, and maps every city of the canonical list and every alias
\* key to a canonical city that it maps to itself: normalize(normalize(c)) =
\* normalize(c).
C16_CityNormalizeIdempotent == [][C16_Step]_vars

\* an alias key given by the model, normalized to its canonical city
C16_Witness ==
    /\ bpc = "build"
    /\ parsed_by = "llm"
    /\ parsed["origin"] = Str("Bangalore")
    /\ parsed["destination"] = None
    /\ parsed["date"] = None

(***************************************************************************)
(* Claims about the executors and the airline filter.                      *)
(***************************************************************************)
RowLists3 == <<dwh_rows, indigo_rows, mongo_rows>>

\* the row's airline field or source tag holds the token, letter case aside
HoldsToken(r, token) ==
    \/ Get(r, "airline").k = "str" /\ InString(Lower(token), Lower(Get(r, "airline").s))
    \/ Get(r, "source").k = "str" /\ InString(Lower(token), Lower(Get(r, "source").s))

\* kept is the sub-list of rows, in their order, of the rows that hold the token
IsSelection(kept, rows, token) ==
    \E at \in [1..Len(kept) -> 1..Len(rows)] :
        /\ \A i \in 1..Len(kept) : kept[i] = rows[at[i]]
        /\ \A i \in 1..(Len(kept) - 1) : at[i] < at[i + 1]
        /\ \A j \in 1..Len(rows) : HoldsToken(rows[j], token) <=> (\E i \in 1..Len(kept) : at[i] = j)

C17_Step ==
    (fpc = "filter" /\ fpc' = "merge") =>
        \A li \in 1..3 :
            LET rows == RowLists3[li]
                airline == Get(parsed, "airline")
            IN  /\ airline.k = "none" => RowLists3'[li] = rows
                /\ filter_rows_by_airline(rows, None) = rows
                /\ Truthy(airline) =>
                      /\ RowLists3'[li] = filter_rows_by_airline(rows, airline)
                      /\ IsSelection(RowLists3'[li], rows,
                                     normalize_airline_token(airline).s)

\* C17: filter_rows_by_airline returns the rows unchanged when the airline
\* is null; otherwise it returns exactly the rows, in their original order,
\* whose airline field or source tag contains the alias-normalized airline
\* token as a case-insensitive substring.
C17_AirlineFilter == [][C17_Step]_vars

\* of two DWH rows the first is dropped and the second kept
C17_Witness ==
    /\ fpc = "merge"
    /\ Truthy(Get(parsed, "airline"))
    /\ Len(flights_dwh) = 2
    /\ flights_dwh[1].airline = Str("Air India")
    /\ Len(dwh_rows) = 1
    /\ dwh_rows[1]["airline"] = Str("IndiGo")
    /\ fails = {}

\* the discount of a document: the nested offer discount when it is not
\* null, else the flat discount_percent
ClaimedDiscount(d) ==
    IF d.pricing.present /\ d.pricing.offer_is_dict
          /\ d.pricing.offer_discount.k = "num"
    THEN d.pricing.offer_discount
    ELSE IF d.pricing.present /\ d.pricing.discount_percent.k = "num"
         THEN d.pricing.discount_percent
         ELSE None
ClaimedBase(d) ==
    IF d.pricing.present /\ d.pricing.base_price.k = "num" THEN d.pricing.base_price ELSE None

d_nested(d) ==
    IF d.pricing.present /\ d.pricing.offer_is_dict THEN d.pricing.offer_discount ELSE None

MongoExecuted == fpc = "filter" /\ "mongo" \notin fails /\ mongo_filter # <<>>

C19_PriceIsEffective ==
    fpc = "filter" =>
        /\ \A i \in 1..Len(dwh_rows) : dwh_rows[i]["price"] = flights_dwh[i].price
        /\ \A i \in 1..Len(indigo_rows) :
              indigo_src[i].fare.k = "num" =>
                  indigo_rows[i]["price"] =
                      Num(Discounted(indigo_src[i].fare.n, indigo_src[i].discount_percent.n))
        /\ \A i \in 1..Len(mongo_rows) :
              ClaimedBase(docs[i]).k = "num" =>
                  mongo_rows[i]["price"] =
                      Num(Discounted(ClaimedBase(docs[i]).n,
                                     IF ClaimedDiscount(docs[i]).k = "num"
                                     THEN ClaimedDiscount(docs[i]).n ELSE 0))

\* the rows a source returns when its execution does not fail
Returned(source) ==
    CASE source = "dwh" -> DwhRows(flights_dwh)
      [] source = "indigo" -> IndigoRows(indigo_src)
      [] source = "mongo" -> IF mongo_filter # <<>> THEN MongoRows(docs) ELSE <<>>
HandedToMerge(source) ==
    CASE source = "dwh" -> dwh_rows
      [] source = "indigo" -> indigo_rows
      [] source = "mongo" -> mongo_rows

\* C20: whatever subset of the sources fails, the pipeline reaches the merge;
\* a failing source hands it an empty list, and a source that does not fail
\* hands it the rows it returned (those of the requested airline, when one is
\* requested), the same rows whichever other sources failed.
C20_PartialFailure ==
    /\ fpc \in {"dwh", "indigo", "mongo", "filter", "merge"}
    /\ fpc = "merge" =>
          \A source \in Sources :
              /\ source \in fails => HandedToMerge(source) = <<>>
              /\ source \notin fails =>
                    /\ HandedToMerge(source) =
                          filter_rows_by_airline(Returned(source), Get(parsed, "airline"))
                    /\ ~Truthy(Get(parsed, "airline")) =>
                          HandedToMerge(source) = Returned(source)

\* two sources fail and the third hands its rows to the merge
C20_Witness ==
    /\ fpc = "merge"
    /\ fails = {"dwh", "mongo"}
    /\ Len(flights_dwh) = 1
    /\ dwh_rows = <<>>
    /\ Len(indigo_rows) = 1
    /\ indigo_rows = IndigoRows(indigo_src)

(***************************************************************************)
(* Claims about the executors, the summary and the result (C21-C30).       *)
(***************************************************************************)
TimesExecuted(source) == Cardinality({i \in 1..Len(executed) : executed[i] = source})

\* C21: whatever the Intent, also one with no non-null filter field, each of
\* the three sources (DWH, IndiGo, Mongo) has been executed exactly once when
\* the pipeline reaches the merge.
C21_EverySourceExecutedOnce ==
    fpc \in {"filter", "merge"} =>
        \A source \in Sources : TimesExecuted(source) = 1

Attempted(mode) == \E i \in 1..Len(connects) : connects[i].mode = mode
Connected == \E i \in 1..Len(connects) : connects[i].ok

\* C22: execute_mongo attempts the connection without certificate
\* verification only after the verified attempt has failed and only with
\* MONGO_ALLOW_INVALID_CERTS set; it returns [] when the verified attempt
\* fails without the flag, when both attempts fail and when the read fails,
\* and it never raises; the documents are read at most once and the rows are
\* at most `limit`.
C22_TwoTierConnection ==
    /\ mpc \in {"start", "secure", "insecure", "read", "rows", "returned"}
    /\ \A i \in 1..Len(connects) :
          connects[i].mode = "unverified" =>
              /\ i = 2
              /\ connects[1] = [mode |-> "verified", ok |-> FALSE]
              /\ allow_invalid_certs
    /\ Len(connects) <= 2
    /\ Len(reads) <= 1
    /\ Len(docs) <= limit
    /\ Len(mongo_rows) <= limit
    /\ mpc = "returned" =>
          /\ (Attempted("verified") /\ ~Connected /\ ~allow_invalid_certs) => mongo_rows = <<>>
          /\ (Attempted("unverified") /\ ~Connected) => mongo_rows = <<>>
          /\ reads = <<FALSE>> => mongo_rows = <<>>
          /\ reads = <<TRUE>> =>
                Len(mongo_rows) = (IF limit < Len(coll) THEN limit ELSE Len(coll))

\* the verified attempt failed, the flag is set, the unverified attempt
\* succeeded and the read returned one of the two matching documents
C22_Witness ==
    /\ mpc = "returned"
    /\ allow_invalid_certs
    /\ connects = <<[mode |-> "verified", ok |-> FALSE], [mode |-> "unverified", ok |-> TRUE]>>
    /\ reads = <<TRUE>>
    /\ Len(coll) = 2
    /\ limit = 1
    /\ Len(mongo_rows) = 1

SummaryStageDone == spc \in {"parse", "emit", "done"}

\* C23: the summarization stage never raises, and whatever the merged rows
\* (none included) and whatever the outcome of the model call (not made, an
\* error value, an exception, empty or blank text, success), the summary it
\* leaves is a non-empty string.
C23_SummaryNeverEmpty ==
    /\ spc \in {"start", "call", "summarize", "parse", "emit", "done"}
    /\ SummaryStageDone => llm_summary.k = "str" /\ llm_summary.s # ""

\* no merged rows and a model that answers with blanks
C23_Witness ==
    /\ spc = "parse"
    /\ integrated = <<>>
    /\ provider_log = <<[kind |-> "text", text |-> Str("  ")]>>
    /\ llm_summary = Str("DETERMINISTIC FALLBACK (LLM call failed): ")

FallbackRan == SummaryStageDone /\ llm_raw \in {"note", "resp"}
NoPricedRows == \A i \in 1..Len(integrated) : Get(integrated[i], "price").k = "none"
NoPriceInfoTexts ==
    { "DETERMINISTIC FALLBACK (" \o label \o "): no price info" :
        label \in {"no LLM", "LLM call failed", "exception"} }

\* C24: when the fallback runs and no merged row has a price, the summary
\* text states that no price information is available.
C24_NoPriceInfoStated ==
    (FallbackRan /\ NoPricedRows) => llm_summary.s \in NoPriceInfoTexts

CallReturned == spc \in {"summarize", "parse", "emit", "done"} /\ use_llm

\* C25: safe_call_llm reaches the provider at most 3 times, each time but the
\* first after a failed attempt; it returns an error value when the API key is
\* missing, when every attempt failed and when the provider gave no text, and
\* a text only when the last answer of the provider carried one; it never
\* raises.
C25_AtMostThreeCalls ==
    /\ tries <= 3
    /\ Len(provider_log) <= 3
    /\ \A i \in 1..(Len(provider_log) - 1) : provider_log[i].kind = "raise"
    /\ CallReturned =>
          /\ resp.kind \in {"text", "error"}
          /\ resp.kind = "text" =>
                /\ provider_log # <<>>
                /\ provider_log[Len(provider_log)].kind = "text"
                /\ provider_log[Len(provider_log)].text.k = "str"
          /\ (~api_key \/ provider_log[Len(provider_log)].kind = "raise"
                \/ provider_log[Len(provider_log)].text.k = "none") =>
                resp.kind = "error"
          /\ ~api_key => provider_log = <<>>

\* two failed attempts, then an answer with text
C25_Witness ==
    /\ spc = "summarize"
    /\ Len(provider_log) = 3
    /\ provider_log[1].kind = "raise"
    /\ provider_log[2].kind = "raise"
    /\ provider_log[3] = [kind |-> "text", text |-> Str(PaddedJson)]
    /\ resp = [kind |-> "text", text |-> JsonText]

ModelCallFailed ==
    \/ ~use_llm
    \/ resp.kind = "error"
    \/ resp.kind = "text" /\ resp.text = ""

FallbackPrefixes ==
    { "DETERMINISTIC FALLBACK (" \o label \o "): " :
        label \in {"no LLM", "LLM call failed", "exception"} }

PricedIndices == {i \in 1..Len(integrated) : Get(integrated[i], "price").k = "num"}
PriceAtIndex(i) == Get(integrated[i], "price").n
ListedCount == IF Cardinality(PricedIndices) < 3 THEN Cardinality(PricedIndices) ELSE 3

\* the ways to list the ListedCount cheapest priced rows in ascending order
Listings ==
    { sel \in [1..ListedCount -> PricedIndices] :
        /\ \A i, j \in 1..ListedCount : i < j =>
              sel[i] # sel[j] /\ PriceAtIndex(sel[i]) <= PriceAtIndex(sel[j])
        /\ \A i \in 1..ListedCount : \A j \in PricedIndices :
              (\A h \in 1..ListedCount : sel[h] # j) => PriceAtIndex(sel[i]) <= PriceAtIndex(j) }

Shown(r) == Get(r, "flight_no").s \o "(" \o ToString(Get(r, "price").n) \o ".0)"

\* C27: when the model call fails, gives empty text or is not made, the
\* summary is a fallback text that lists min(3, number of priced rows) rows,
\* the ones with the lowest prices in ascending order, each as
\* flight_no(price), and no row without a price.
C27_FallbackListsCheapest ==
    (SummaryStageDone /\ ModelCallFailed) =>
        \E sel \in Listings : \E prefix \in FallbackPrefixes :
            llm_summary.s =
                prefix \o JoinComma([i \in 1..ListedCount |-> Shown(integrated[sel[i]])])

\* four priced rows, two of them at the same price, and a failed model call
C27_Witness ==
    /\ spc = "parse"
    /\ resp.kind = "error"
    /\ Len(integrated) = 4
    /\ Cardinality(PricedIndices) = 4
    /\ llm_summary =
          Str("DETERMINISTIC FALLBACK (LLM call failed): 6E201(3000.0), AI123(4500.0), 6E305(4500.0)")

\* C28: llm_parsed is the parsed structure when the summary text as a whole
\* is valid JSON and null in every other case.
C28_ParsedIffWholeJson ==
    spc \in {"emit", "done"} =>
        llm_parsed = (IF json_loads_raises(llm_summary.s) THEN None
                      ELSE json_loads(llm_summary.s))

\* C26: whatever the query text and whatever the extractor answers, no
\* unhandled exception ends run_query_interactive before it emits its result.
C26_NoUnhandledException ==
    bpc \in {"parse", "normalize", "build", "built"}

C29_NoSharing ==
    /\ Len(owner) = Len(merged)
    /\ \A i \in 1..Len(owner) : \A li \in 1..3 : \A j \in 1..MaxRows + 1 :
          owner[i] # InputRef(li, j)

C29_InputsKept ==
    /\ dwh_rows' = dwh_rows
    /\ indigo_rows' = indigo_rows
    /\ mongo_rows' = mongo_rows

NormalizedInput(li) ==
    LET rows == IF li = 1 THEN dwh_rows ELSE IF li = 2 THEN indigo_rows ELSE mongo_rows
    IN  [i \in 1..Len(rows) |-> normalize_row(rows[i])]

InputKeys ==
    { KeyOf(NormalizedInput(1)[i]) : i \in 1..Len(dwh_rows) }
    \cup { KeyOf(NormalizedInput(2)[i]) : i \in 1..Len(indigo_rows) }
    \cup { KeyOf(NormalizedInput(3)[i]) : i \in 1..Len(mongo_rows) }

\* the non-null source tags list li supplies for a key
TagsSupplied(li, key) ==
    { Get(NormalizedInput(li)[i], "source") :
        i \in { h \in 1..Len(NormalizedInput(li)) :
                  /\ KeyOf(NormalizedInput(li)[h]) = key
                  /\ Get(NormalizedInput(li)[h], "source").k # "none" } }

\* the tags of the highest-priority list that supplies one for the key
ClaimedTags(key) ==
    IF TagsSupplied(1, key) # {} THEN TagsSupplied(1, key)
    ELSE IF TagsSupplied(2, key) # {} THEN TagsSupplied(2, key)
    ELSE IF TagsSupplied(3, key) # {} THEN TagsSupplied(3, key)
    ELSE {None}

\* C30: the merged rows have pairwise distinct flight_no keys, as many as
\* there are distinct keys among the input rows, every input key is that of
\* exactly one merged row, and the source tag of a merged row is that of the
\* highest-priority list (DWH, IndiGo, Mongo) that supplied a row with its
\* key and a non-null source.
C30_OneRowPerKey ==
    pc = "done" =>
        /\ \A i, j \in 1..Len(integrated) :
              i # j => integrated[i]["flight_no"] # integrated[j]["flight_no"]
        /\ Len(integrated) = Cardinality(InputKeys)
        /\ \A key \in InputKeys :
              Cardinality({j \in 1..Len(integrated) : integrated[j]["flight_no"] = key}) = 1
        /\ \A j \in 1..Len(integrated) :
              Get(integrated[j], "source") \in ClaimedTags(integrated[j]["flight_no"])

====
